---- MODULE Spec2Model ----
(***************************************************************************)
(* Model of the SMC trading bot: the per-symbol queue of deferred trade    *)
(* setups (TradeQueueManager) and the analysis cycle of SMCTradingBot that *)
(* turns the main pattern into a trade plan or defers it into the queue.   *)
(*                                                                         *)
(* Numbers.  Prices are integers.  Every ratio the code computes as a      *)
(* floating-point fraction (thresholds, volatility, distances) is kept in  *)
(* basis points (1/BP); a price derived by multiplying with such a ratio   *)
(* (the price band of a queued setup, the stop loss of a plan) is kept     *)
(* multiplied by BP so that it stays exact.  The clock is Date.now() in    *)
(* milliseconds, counted from the construction of the bot.                 *)
(***************************************************************************)
EXTENDS Integers, Sequences, FiniteSets, TLC

VARIABLES
    now,            \* the wall clock read by Date.now()
    queuedSetups,   \* TradeQueueManager.queuedSetups: symbol -> array of setups
    last,           \* the last call made and what it returned
    klineCache,     \* SMCTradingBot.klineCache: symbol -> interval -> CacheEntry
    fetching,       \* the getKlinesWithCache calls waiting for the remote fetch
    db,             \* the sqlite database: the rows of trading_plans, trades, wallet
    isRunning,      \* SMCTradingManager.isRunning
    timers,         \* the timers of setInterval: handles made so far, and the live ones
    monitorIntervals, \* SMCTradingManager.monitorIntervals: symbol -> handle
    priceUpdateInterval, \* SMCTradingManager.priceUpdateInterval
    currentPrices,  \* SMCTradingManager.currentPrices: symbol -> price
    calls           \* the async calls of the manager that wait at an await

managerVars ==
    <<isRunning, timers, monitorIntervals, priceUpdateInterval, currentPrices, calls>>

vars == <<now, queuedSetups, last, klineCache, fetching, db, managerVars>>

(***************************************************************************)
(* Bounds of the model                                                     *)
(***************************************************************************)
MaxFresh == 12      \* distinct entry prices a run of new setups goes through
MaxTicks == 2       \* clock steps of TickStep in one run
MaxVaryLen == 2     \* longest queue a varied (near-duplicate) setup is offered to
MaxOtherQueue == 1  \* longest queues while two symbols are queued at once

TickStep == 3 * 60 * 60 * 1000
MaxNow == MaxTicks * TickStep

(***************************************************************************)
(* Program constants                                                       *)
(***************************************************************************)
BP == 100 * 100
MAX_QUEUED_SETUPS_PER_SYMBOL == 10
SIX_HOURS == 6 * 60 * 60 * 1000
ONE_DAY == 24 * 60 * 60 * 1000
BaseThresholdBp == 50          \* priceThreshold = 0.005
SimilarNum == 3                \* 0.003 = SimilarNum / SimilarDen
SimilarDen == 1000

Symbols == {"BTCUSDT", "ETHUSDT"}
MainSymbol == "BTCUSDT"
PatternTypes == {"BOS", "ChoCH", "LiquidityGrab", "OrderBlock", "FairValueGap",
                 "BreakerBlock", "Imbalance"}
Directions == {"bullish", "bearish"}

Abs(x) == IF x < 0 THEN -x ELSE x
Max(a, b) == IF a >= b THEN a ELSE b
Min(a, b) == IF a <= b THEN a ELSE b
Range(s) == {s[i] : i \in 1..Len(s)}

(***************************************************************************)
(* QueuedTradeSetup.  min and max are priceThreshold.min and .max times BP.*)
(* The analysis snapshot is represented by the pattern it was built for.   *)
(* Two setup objects of one queue never agree on pattern type, direction   *)
(* and entry price (queueSetup refuses the second), so the identity of an  *)
(* object, which Array.includes compares, is the equality of the records.  *)
(***************************************************************************)
NoSetup ==
    [symbol |-> "", ptype |-> "", direction |-> "", timeframe |-> "",
     entryPrice |-> 0, queueTime |-> 0, expiryTime |-> 0, min |-> 0, max |-> 0]

MakeSetup(symbol, ptype, direction, timeframe, entry, queueTime, expiryTime, thresholdBp) ==
    [symbol |-> symbol, ptype |-> ptype, direction |-> direction,
     timeframe |-> timeframe, entryPrice |-> entry, queueTime |-> queueTime,
     expiryTime |-> expiryTime,
     min |-> entry * (BP - thresholdBp),
     max |-> entry * (BP + thresholdBp)]

(***************************************************************************)
(* TradeQueueManager                                                       *)
(***************************************************************************)

\* cleanExpiredSetups: the array stored for the symbol after the call at time t
cleanExpiredSetups(q, t) == SelectSeq(q, LAMBDA s : s.expiryTime > t)

\* the similarity test of queueSetup
isSimilarSetup(existing, setup) ==
    /\ Abs(existing.entryPrice - setup.entryPrice) * SimilarDen < SimilarNum * setup.entryPrice
    /\ existing.ptype = setup.ptype
    /\ existing.direction = setup.direction

\* variant: push without the shift
pushSetupUnbounded(q, setup) == Append(q, setup)

\* variant: push, then pop the newest when the array grew beyond the maximum
pushSetupEvictNewest(q, setup) ==
    LET pushed == Append(q, setup)
    IN  IF Len(pushed) > MAX_QUEUED_SETUPS_PER_SYMBOL
        THEN SubSeq(pushed, 1, MAX_QUEUED_SETUPS_PER_SYMBOL) ELSE pushed

\* push, then shift when the array grew beyond the maximum
pushSetup(q, setup) ==
    LET pushed == Append(q, setup)
    IN  IF Len(pushed) > MAX_QUEUED_SETUPS_PER_SYMBOL THEN Tail(pushed) ELSE pushed

\* queueSetup: the array stored for the symbol after the call.  symbolQueue is
\* the array read BEFORE cleanExpiredSetups replaced the stored one; the
\* similarity test, the push and the final set all use that first array.
queueSetup(q, setup, t) ==
    LET symbolQueue == q
        cleaned == cleanExpiredSetups(q, t)
        similarSetupExists ==
            \E i \in 1..Len(symbolQueue) : isSimilarSetup(symbolQueue[i], setup)
    IN  IF similarSetupExists THEN cleaned ELSE pushSetup(symbolQueue, setup)

\* the band test of checkQueuedSetups
inPriceBand(setup, currentPrice) ==
    /\ currentPrice * BP >= setup.min
    /\ currentPrice * BP <= setup.max

\* checkQueuedSetups: the returned array.  The filter runs over the array read
\* before cleanExpiredSetups.
checkQueuedSetupsReturn(q, currentPrice, t) ==
    IF Len(q) = 0 THEN <<>>
    ELSE SelectSeq(q, LAMBDA s : inPriceBand(s, currentPrice))

\* variant: the triggered setups are not removed
checkQueuedSetupsStoreKeepsTriggered(q, currentPrice, t) ==
    IF Len(q) = 0 THEN q ELSE cleanExpiredSetups(q, t)

\* checkQueuedSetups: the array stored for the symbol after the call
checkQueuedSetupsStore(q, currentPrice, t) ==
    LET validSetups == checkQueuedSetupsReturn(q, currentPrice, t)
    IN  IF Len(q) = 0 THEN q
        ELSE IF Len(validSetups) > 0
             THEN SelectSeq(q, LAMBDA s : s \notin Range(validSetups))
             ELSE cleanExpiredSetups(q, t)

\* getQueuedSetups
getQueuedSetups(symbol) == queuedSetups[symbol]

(***************************************************************************)
(* SMCAnalysisService.calculateVolatility, in basis points                 *)
(***************************************************************************)
VolatilityWindow == 20

RECURSIVE SumSeq(_)
SumSeq(s) == IF Len(s) = 0 THEN 0 ELSE Head(s) + SumSeq(Tail(s))

\* floor of the square root
ISqrt(n) == CHOOSE r \in 0..BP : r * r <= n /\ (r + 1) * (r + 1) > n

\* Array.slice(-n)
LastN(s, n) == IF Len(s) <= n THEN s ELSE SubSeq(s, Len(s) - n + 1, Len(s))

\* closes: the close prices of the candles handed over
calculateVolatility(closes) ==
    LET returns == [i \in 1..(Len(closes) - 1) |->
                       ((closes[i + 1] - closes[i]) * BP) \div closes[i]]
        n == Len(returns)
        mean == SumSeq(returns) \div n
        variance == SumSeq([i \in 1..n |-> (returns[i] - mean) * (returns[i] - mean)]) \div n
    IN  ISqrt(variance)

(***************************************************************************)
(* The 5m candle series of the analysis cycles.  The close prices          *)
(* alternate between the base price and the base price plus an amplitude   *)
(* (a wider one before the last VolatilityWindow candles) and end at the   *)
(* close price of the last candle.                                         *)
(***************************************************************************)
SeriesLen == 30     \* candles in the 5m series of a cycle
BasePrice == 10 * 100
EarlyAmp == 8 * 10

closesOf(candles) ==
    [i \in 1..SeriesLen |->
        IF i = SeriesLen THEN candles.close
        ELSE IF i <= SeriesLen - VolatilityWindow THEN BasePrice + EarlyAmp * (i % 2)
        ELSE BasePrice + candles.amp * (i % 2)]

CandleChoices ==
    { [amp |-> 0, close |-> BasePrice, timestamps |-> "ascending"], [amp |-> 5, close |-> BasePrice, timestamps |-> "ascending"],
      [amp |-> 4, close |-> BasePrice, timestamps |-> "ascending"], [amp |-> 10, close |-> BasePrice, timestamps |-> "ascending"],
      [amp |-> 10, close |-> BasePrice + 30, timestamps |-> "ascending"], [amp |-> 20, close |-> BasePrice + 30, timestamps |-> "ascending"],
      [amp |-> 20, close |-> BasePrice + 100, timestamps |-> "ascending"] }

\* calculateVolatility of the windows the cycles hand over, computed once
VolatilityTable ==
    [window \in { LastN(closesOf(c), VolatilityWindow) : c \in CandleChoices } |->
        calculateVolatility(window)]

volatilityOf(window) ==
    IF window \in DOMAIN VolatilityTable THEN VolatilityTable[window]
    ELSE calculateVolatility(window)

(***************************************************************************)
(* SMCPattern as SMCAnalysisService.createPattern builds it.  confidence   *)
(* is in hundredths.  tf holds what createPattern derives from the candles *)
(* of the pattern's timeframe: the volume of the last candle, the average  *)
(* volume, the three price-action flags and the trend of those candles.    *)
(***************************************************************************)
NoPattern ==
    [type |-> "", direction |-> "", price |-> 0, confidence |-> 0, timeframe |-> "",
     timestamp |-> 0, volume |-> 0, averageVolume |-> 0, cleanBreak |-> FALSE,
     immediateRetrace |-> FALSE, strongReversal |-> FALSE,
     volumeConfirmation |-> FALSE, marketStructureAlignment |-> FALSE]

isAlignedWithMarketStructure(trend, direction) ==
    \/ direction = "bullish" /\ trend = "uptrend"
    \/ direction = "bearish" /\ trend = "downtrend"

createPattern(type, direction, price, confidence, timeframe, timestamp, tf) ==
    [type |-> type, direction |-> direction, price |-> price,
     confidence |-> confidence, timeframe |-> timeframe, timestamp |-> timestamp,
     volume |-> tf.volume, averageVolume |-> tf.averageVolume,
     cleanBreak |-> tf.cleanBreak, immediateRetrace |-> tf.immediateRetrace,
     strongReversal |-> tf.strongReversal,
     volumeConfirmation |-> 2 * tf.volume > 3 * tf.averageVolume,
     marketStructureAlignment |-> isAlignedWithMarketStructure(tf.trend, direction)]

\* the base confidence findPatterns gives each pattern type
baseConfidence(type) ==
    CASE type = "OrderBlock" -> 80
      [] type = "FairValueGap" -> 70
      [] type = "ChoCH" -> 90
      [] type = "BOS" -> 85
      [] type = "LiquidityGrab" -> 75
      [] type = "BreakerBlock" -> 80
      [] type = "Imbalance" -> 70

(***************************************************************************)
(* SMCTradingBot.prioritizePatterns                                        *)
(***************************************************************************)
patternPriority(type) ==
    CASE type = "BOS" -> 5
      [] type = "ChoCH" -> 4
      [] type = "LiquidityGrab" -> 3
      [] type = "OrderBlock" -> 2
      [] type = "FairValueGap" -> 1
      [] type = "BreakerBlock" -> 2
      [] type = "Imbalance" -> 1

timeframePriority(timeframe) ==
    CASE timeframe = "15m" -> 2
      [] timeframe = "5m" -> 1

\* the keys of the timeframePriority record; any other key reads undefined
hasTimeframePriority(timeframe) == timeframe \in {"15m", "5m"}

\* the comparator: negative when a sorts before b.  With a timeframe that has
\* no priority, timeframeDiff is NaN: NaN !== 0 holds, NaN is returned, and
\* Array.sort takes a NaN result as 0.
comparePatterns(a, b) ==
    LET priorityDiff == patternPriority(b.type) - patternPriority(a.type)
        timeframeDiffIsNaN == ~hasTimeframePriority(a.timeframe)
                                \/ ~hasTimeframePriority(b.timeframe)
        timeframeDiff == timeframePriority(b.timeframe) - timeframePriority(a.timeframe)
        confidenceDiff == b.confidence - a.confidence
    IN  IF priorityDiff # 0 THEN priorityDiff
        ELSE IF timeframeDiffIsNaN THEN 0
        ELSE IF timeframeDiff # 0 THEN timeframeDiff
        ELSE IF confidenceDiff # 0 THEN confidenceDiff
        ELSE b.timestamp - a.timestamp

RemoveAt(s, i) == SubSeq(s, 1, i - 1) \o SubSeq(s, i + 1, Len(s))

\* Array.sort is stable: of the elements nothing sorts before, the first one
\* comes first, and so on.
RECURSIVE prioritizePatterns(_)
prioritizePatterns(patterns) ==
    IF Len(patterns) = 0 THEN <<>>
    ELSE LET first == CHOOSE i \in 1..Len(patterns) :
                 /\ \A j \in 1..Len(patterns) : comparePatterns(patterns[j], patterns[i]) >= 0
                 /\ \A k \in 1..(i - 1) :
                      \E j \in 1..Len(patterns) : comparePatterns(patterns[j], patterns[k]) < 0
         IN  <<patterns[first]>> \o prioritizePatterns(RemoveAt(patterns, first))

(***************************************************************************)
(* SMCTradingBot.validatePatternAlignment                                  *)
(***************************************************************************)
validateReversalPattern(pattern, structure) ==
    /\ pattern.volumeConfirmation
    /\ pattern.marketStructureAlignment
    /\ pattern.cleanBreak /\ ~pattern.immediateRetrace

validateLiquidityGrab(pattern, structure) ==
    /\ ~(2 * pattern.volume < 3 * pattern.averageVolume)
    /\ pattern.strongReversal
    /\ \E i \in 1..Len(structure.keyLevels) :
         LET level == structure.keyLevels[i]
         IN  /\ Abs(level.price - pattern.price) * 1000 < 3 * pattern.price
             /\ level.strength >= 70

validateBlock(pattern, structure) ==
    /\ pattern.volumeConfirmation
    /\ \E i \in 1..Len(structure.keyLevels) :
         LET level == structure.keyLevels[i]
         IN  /\ Abs(level.price - pattern.price) * 1000 < 5 * pattern.price
             /\ level.type = (IF pattern.direction = "bullish" THEN "support"
                              ELSE "resistance")

validateImbalance(pattern, structure) ==
    /\ pattern.cleanBreak
    /\ ~pattern.immediateRetrace
    /\ pattern.marketStructureAlignment

validatePatternAlignment(pattern, structure) ==
    CASE pattern.type \in {"BOS", "ChoCH"} -> validateReversalPattern(pattern, structure)
      [] pattern.type = "LiquidityGrab" -> validateLiquidityGrab(pattern, structure)
      [] pattern.type \in {"OrderBlock", "BreakerBlock"} -> validateBlock(pattern, structure)
      [] pattern.type \in {"FairValueGap", "Imbalance"} -> validateImbalance(pattern, structure)
      [] OTHER -> FALSE

(***************************************************************************)
(* SMCTradingBot.calculateTradeSetup                                       *)
(* clk holds the four readings of Date.now() the call makes, in order: for *)
(* oneDayAgo, for queueTime, for expiryTime and, inside queueSetup, for    *)
(* cleanExpiredSetups.  stopLoss is kept multiplied by BP, and             *)
(* riskRewardRatio in hundredths.                                          *)
(***************************************************************************)
MinStopBp == 80                \* 0.008
VolatileBp == 150              \* 0.015
MinRiskReward == 150           \* 1.5
MinTargetStrength == 50        \* 0.5
MaxTargets == 3

NoTradeSetup ==
    [outcome |-> "null", entry |-> 0, stopLoss |-> 0, targets |-> <<>>,
     riskRewardRatio |-> 0, queued |-> NoSetup]

\* priceThreshold, in basis points
priceThresholdOf(volatility) ==
    IF volatility > VolatileBp THEN volatility * 2 ELSE BaseThresholdBp

\* priceDiff > priceThreshold
tooFarFromEntry(currentPrice, entry, thresholdBp) ==
    Abs(currentPrice - entry) * BP > thresholdBp * entry

\* the swings on the invalidating side that are newer than oneDayAgo, nearest first
relevantSwingsOf(swings, direction, entry, oneDayAgo) ==
    SelectSeq(swings, LAMBDA swing :
        /\ (IF direction = "bullish" THEN swing.price < entry ELSE swing.price > entry)
        /\ swing.timestamp > oneDayAgo)

\* the first element of the stable sort by distance from entry
nearestSwing(relevantSwings, entry) ==
    LET first == CHOOSE i \in 1..Len(relevantSwings) :
            /\ \A j \in 1..Len(relevantSwings) :
                 Abs(entry - relevantSwings[i].price) <= Abs(entry - relevantSwings[j].price)
            /\ \A k \in 1..(i - 1) :
                 Abs(entry - relevantSwings[k].price) > Abs(entry - relevantSwings[i].price)
    IN  relevantSwings[first]

stopLossOf(relevantSwings, direction, entry, volatility) ==
    IF Len(relevantSwings) = 0
    THEN LET stopDistance == volatility * 2
         IN  IF direction = "bullish" THEN entry * (BP - stopDistance)
             ELSE entry * (BP + stopDistance)
    ELSE nearestSwing(relevantSwings, entry).price * BP

\* variant: only the 0.8% floor, without the volatility term
stopTooCloseFloorOnly(entry, stopLoss, volatility) ==
    Abs(entry * BP - stopLoss) * 10 < MinStopBp * 10 * entry

\* stopLossDistance < minStopDistance
stopTooClose(entry, stopLoss, volatility) ==
    Abs(entry * BP - stopLoss) * 10 < Max(volatility * 12, MinStopBp * 10) * entry

\* prices sorted ascending
RECURSIVE SortAscending(_)
SortAscending(prices) ==
    IF Len(prices) = 0 THEN <<>>
    ELSE LET first == CHOOSE i \in 1..Len(prices) :
                 /\ \A j \in 1..Len(prices) : prices[i] <= prices[j]
                 /\ \A k \in 1..(i - 1) : prices[k] > prices[i]
         IN  <<prices[first]>> \o SortAscending(RemoveAt(prices, first))

Reverse(s) == [i \in 1..Len(s) |-> s[Len(s) + 1 - i]]

\* variant: the valid levels in the order of the key-level list, not sorted
targetsOfUnsorted(keyLevels, direction, entry) ==
    LET valid == SelectSeq(keyLevels, LAMBDA level :
                     /\ (IF direction = "bullish" THEN level.price > entry
                         ELSE level.price < entry)
                     /\ level.strength >= MinTargetStrength)
    IN  [i \in 1..Min(MaxTargets, Len(valid)) |-> valid[i].price]

targetsOf(keyLevels, direction, entry) ==
    LET valid == SelectSeq(keyLevels, LAMBDA level :
                     /\ (IF direction = "bullish" THEN level.price > entry
                         ELSE level.price < entry)
                     /\ level.strength >= MinTargetStrength)
        prices == [i \in 1..Len(valid) |-> valid[i].price]
        ascending == SortAscending(prices)
        sorted == IF direction = "bullish" THEN ascending ELSE Reverse(ascending)
    IN  SubSeq(sorted, 1, Min(MaxTargets, Len(sorted)))

\* variant: the ratio taken on the farthest target
riskRewardRatioFarthestTarget(entry, stopLoss, targets) ==
    (Abs(targets[Len(targets)] * BP - entry * BP) * 100) \div Abs(stopLoss - entry * BP)

\* riskRewardRatio, in hundredths
riskRewardRatioOf(entry, stopLoss, targets) ==
    (Abs(targets[1] * BP - entry * BP) * 100) \div Abs(stopLoss - entry * BP)

calculateTradeSetup(mainPattern, analysis, closes, symbol, clk) ==
    LET oneDayAgo == clk.t1 - ONE_DAY
        entry == mainPattern.price
        currentPrice == closes[Len(closes)]
        volatility == volatilityOf(LastN(closes, VolatilityWindow))
        priceThreshold == priceThresholdOf(volatility)
        relevantSwings == relevantSwingsOf(analysis.marketStructure.swings,
                                           mainPattern.direction, entry, oneDayAgo)
        stopLoss == stopLossOf(relevantSwings, mainPattern.direction, entry, volatility)
        targets == targetsOf(analysis.keyLevels, mainPattern.direction, entry)
        riskRewardRatio == riskRewardRatioOf(entry, stopLoss, targets)
    IN  IF mainPattern.timeframe # "5m" /\ mainPattern.timeframe # "15m" THEN NoTradeSetup
        ELSE IF mainPattern.timestamp < oneDayAgo THEN NoTradeSetup
        ELSE IF tooFarFromEntry(currentPrice, entry, priceThreshold)
        THEN [NoTradeSetup EXCEPT
                !.outcome = "queued",
                !.queued = MakeSetup(symbol, mainPattern.type, mainPattern.direction,
                                     mainPattern.timeframe, entry, clk.t2,
                                     clk.t3 + SIX_HOURS, priceThreshold)]
        ELSE IF stopTooClose(entry, stopLoss, volatility) THEN NoTradeSetup
        ELSE IF Len(targets) < 1 THEN NoTradeSetup
        ELSE IF riskRewardRatio < MinRiskReward THEN NoTradeSetup
        ELSE [outcome |-> "setup", entry |-> entry, stopLoss |-> stopLoss,
              targets |-> targets, riskRewardRatio |-> riskRewardRatio,
              queued |-> NoSetup]

(***************************************************************************)
(* SMCAnalysisService.identifySwings.  A candle is [high, low, timestamp]. *)
(* lastSwingHigh and lastSwingLow start at -Infinity and +Infinity, which  *)
(* the model writes as a record without a known price.                     *)
(***************************************************************************)
lookback == 3
swing(price, type, timestamp) == [price |-> price, type |-> type, timestamp |-> timestamp]
Infinite == [known |-> FALSE, price |-> 0]
Finite(price) == [known |-> TRUE, price |-> price]

\* variant: a swing high equal to the previous one counts as higher
swingHighTypeOrEqual(high, lastSwingHigh) ==
    IF ~lastSwingHigh.known \/ high >= lastSwingHigh.price THEN "HH" ELSE "LH"

swingHighType(high, lastSwingHigh) ==
    IF ~lastSwingHigh.known \/ high > lastSwingHigh.price THEN "HH" ELSE "LH"
swingLowType(low, lastSwingLow) ==
    IF ~lastSwingLow.known \/ low < lastSwingLow.price THEN "LL" ELSE "HL"

isSwingHigh(candles, i) ==
    \A j \in ((i - lookback)..(i + lookback)) \ {i} : candles[j].high <= candles[i].high
isSwingLow(candles, i) ==
    \A j \in ((i - lookback)..(i + lookback)) \ {i} : candles[j].low >= candles[i].low

\* the loop from candle i on (candles are numbered from 1 here)
RECURSIVE identifySwingsFrom(_, _, _, _, _)
identifySwingsFrom(candles, i, swings, lastSwingHigh, lastSwingLow) ==
    IF i > Len(candles) - lookback THEN swings
    ELSE
        LET current == candles[i]
            withHigh ==
                IF isSwingHigh(candles, i)
                THEN Append(swings, swing(current.high,
                                          swingHighType(current.high, lastSwingHigh),
                                          current.timestamp))
                ELSE swings
            withLow ==
                IF isSwingLow(candles, i)
                THEN Append(withHigh, swing(current.low,
                                            swingLowType(current.low, lastSwingLow),
                                            current.timestamp))
                ELSE withHigh
        IN  identifySwingsFrom(candles, i + 1, withLow,
                IF isSwingHigh(candles, i) THEN Finite(current.high) ELSE lastSwingHigh,
                IF isSwingLow(candles, i) THEN Finite(current.low) ELSE lastSwingLow)

identifySwings(candles) ==
    identifySwingsFrom(candles, lookback + 1, <<>>, Infinite, Infinite)

(***************************************************************************)
(* groupNearbyLevels.  The average of a group is a fraction, so a price is *)
(* a record [n, d] standing for n / d with d > 0.                          *)
(***************************************************************************)
Whole(n) == [n |-> n, d |-> 1]
Minus(a, b) == [n |-> a.n * b.d - b.n * a.d, d |-> a.d * b.d]
\* Math.abs(price - groupPrice) / groupPrice <= 0.002, prices being positive
withinTolerance(price, groupPrice) ==
    Abs(Minus(price, groupPrice).n) * groupPrice.d * 1000
        <= 2 * groupPrice.n * Minus(price, groupPrice).d

\* Array.prototype.sort is stable: x goes after the elements it does not precede
RECURSIVE insertPrice(_, _)
insertPrice(x, sorted) ==
    IF sorted = <<>> THEN <<x>>
    ELSE IF Minus(x, Head(sorted)).n < 0 THEN <<x>> \o sorted
    ELSE <<Head(sorted)>> \o insertPrice(x, Tail(sorted))
RECURSIVE sortPrices(_)
sortPrices(prices) ==
    IF prices = <<>> THEN <<>>
    ELSE insertPrice(prices[Len(prices)], sortPrices(SubSeq(prices, 1, Len(prices) - 1)))
RECURSIVE insertGroup(_, _)
insertGroup(x, sorted) ==
    IF sorted = <<>> THEN <<x>>
    ELSE IF Head(sorted).count - x.count < 0 THEN <<x>> \o sorted
    ELSE <<Head(sorted)>> \o insertGroup(x, Tail(sorted))
RECURSIVE sortGroups(_)
sortGroups(groups) ==
    IF groups = <<>> THEN <<>>
    ELSE insertGroup(groups[Len(groups)], sortGroups(SubSeq(groups, 1, Len(groups) - 1)))

\* prices.reduce((a, b) => a + b)
RECURSIVE SumOf(_)
SumOf(prices) ==
    IF Len(prices) = 1 THEN prices[1]
    ELSE LET a == SumOf(SubSeq(prices, 1, Len(prices) - 1))
             b == prices[Len(prices)]
         IN  [n |-> a.n * b.d + b.n * a.d, d |-> a.d * b.d]
finalize(currentGroup) ==
    LET sum == SumOf(currentGroup.prices)
    IN  [price |-> [n |-> sum.n, d |-> sum.d * Len(currentGroup.prices)],
         count |-> currentGroup.count]
startGroup(price) == [price |-> price, prices |-> <<price>>, count |-> 1]

\* the loop over sortedPrices from index i on
RECURSIVE groupFrom(_, _, _, _)
groupFrom(sortedPrices, i, currentGroup, groups) ==
    IF i > Len(sortedPrices) THEN Append(groups, finalize(currentGroup))
    ELSE IF withinTolerance(sortedPrices[i], currentGroup.price)
    THEN groupFrom(sortedPrices, i + 1,
                   [currentGroup EXCEPT !.prices = Append(@, sortedPrices[i]),
                                        !.count = @ + 1],
                   groups)
    ELSE groupFrom(sortedPrices, i + 1, startGroup(sortedPrices[i]),
                   Append(groups, finalize(currentGroup)))

groupNearbyLevels(prices) ==
    IF Len(prices) = 0 THEN <<>>
    ELSE
        LET sortedPrices == sortPrices(prices)
        IN  sortGroups(groupFrom(sortedPrices, 2, startGroup(sortedPrices[1]), <<>>))

(***************************************************************************)
(* The order-block recognisers: the 'OrderBlock' case of                   *)
(* SMCAnalysisService.findPatterns, and findOrderBlocks of the bot that    *)
(* scans the candles itself.  A candle is [open, close, high, low,         *)
(* timestamp]; candles are numbered from 1 here, so the loops run over     *)
(* i = 2 .. Len - 1.  Of a pattern the model keeps direction, price and    *)
(* timestamp.  The prices of the candles are even numbers, so that the     *)
(* midpoint of a range is a whole number.                                  *)
(***************************************************************************)
isBullishBlock(curr, next) ==
    curr.close < curr.open /\ next.close > next.open /\ next.close > curr.high
isBearishBlock(curr, next) ==
    curr.close > curr.open /\ next.close < next.open /\ next.close < curr.low
orderBlock(direction, price, timestamp) ==
    [type |-> "OrderBlock", direction |-> direction, price |-> price,
     confidence |-> baseConfidence("OrderBlock"), timestamp |-> timestamp]

RECURSIVE findPatternsOrderBlockFrom(_, _, _)
findPatternsOrderBlockFrom(candles, i, patterns) ==
    IF i > Len(candles) - 1 THEN patterns
    ELSE
        LET curr == candles[i]
            next == candles[i + 1]
            timestamp == candles[Len(candles)].timestamp
            withBullish ==
                IF isBullishBlock(curr, next)
                THEN Append(patterns, orderBlock("bullish", curr.low, timestamp))
                ELSE patterns
            withBearish ==
                IF isBearishBlock(curr, next)
                THEN Append(withBullish, orderBlock("bearish", curr.high, timestamp))
                ELSE withBullish
        IN  findPatternsOrderBlockFrom(candles, i + 1, withBearish)
findPatternsOrderBlock(candles) == findPatternsOrderBlockFrom(candles, 2, <<>>)

RECURSIVE findOrderBlocksFrom(_, _, _)
findOrderBlocksFrom(candles, i, patterns) ==
    IF i > Len(candles) - 1 THEN patterns
    ELSE
        LET curr == candles[i]
            next == candles[i + 1]
            withBullish ==
                IF isBullishBlock(curr, next)
                THEN Append(patterns, orderBlock("bullish", (curr.high + curr.low) \div 2,
                                                 curr.timestamp))
                ELSE patterns
            withBearish ==
                IF isBearishBlock(curr, next)
                THEN Append(withBullish, orderBlock("bearish", (curr.high + curr.low) \div 2,
                                                    curr.timestamp))
                ELSE withBullish
        IN  findOrderBlocksFrom(candles, i + 1, withBearish)
findOrderBlocks(candles) == findOrderBlocksFrom(candles, 2, <<>>)

(***************************************************************************)
(* SMCAnalysisService.identifyKeyLevels.  priceMap is the list of the      *)
(* entries of the Map in insertion order; the prices of the model are      *)
(* whole numbers, which roundPrice leaves as they are.  strength is in     *)
(* hundredths.                                                             *)
(***************************************************************************)
RECURSIVE identifyKeyLevelsFrom(_, _, _)
identifyKeyLevelsFrom(candles, i, priceMap) ==
    IF i > Len(candles) - 1 THEN priceMap
    ELSE
        LET candle == candles[i]
            prev == candles[i - 1]
            next == candles[i + 1]
            has(m, price) == \E k \in 1..Len(m) : m[k].price = price
            counted(m, price, type) ==
                IF has(m, price)
                THEN [k \in 1..Len(m) |->
                        IF m[k].price = price THEN [m[k] EXCEPT !.count = @ + 1] ELSE m[k]]
                ELSE Append(m, [price |-> price, count |-> 1, type |-> type])
            broken(m, price) ==
                LET entry == [price |-> price, count |-> 2, type |-> "breaker"]
                IN  IF has(m, price)
                    THEN [k \in 1..Len(m) |-> IF m[k].price = price THEN entry ELSE m[k]]
                    ELSE Append(m, entry)
            inner == i > 2 /\ i < Len(candles) - 1
            support ==
                IF candle.low < prev.low /\ candle.low < next.low
                THEN counted(priceMap, candle.low, "support") ELSE priceMap
            resistance ==
                IF candle.high > prev.high /\ candle.high > next.high
                THEN counted(support, candle.high, "resistance") ELSE support
            brokenDown ==
                IF /\ inner
                   /\ candle.low < prev.low /\ candle.low < candles[i - 2].low
                   /\ next.close < candle.low /\ candles[i + 2].close < candle.low
                THEN broken(resistance, candle.low) ELSE resistance
            brokenUp ==
                IF /\ inner
                   /\ candle.high > prev.high /\ candle.high > candles[i - 2].high
                   /\ next.close > candle.high /\ candles[i + 2].close > candle.high
                THEN broken(brokenDown, candle.high) ELSE brokenDown
        IN  identifyKeyLevelsFrom(candles, i + 1, brokenUp)

identifyKeyLevels(candles) ==
    LET priceMap == identifyKeyLevelsFrom(candles, 2, <<>>)
        maxCount == CHOOSE c \in { priceMap[k].count : k \in 1..Len(priceMap) } :
                        \A k \in 1..Len(priceMap) : priceMap[k].count <= c
        levels == [k \in 1..Len(priceMap) |->
                     [price |-> priceMap[k].price, type |-> priceMap[k].type,
                      count |-> priceMap[k].count,
                      strength |-> (priceMap[k].count * 100) \div maxCount]]
    IN  sortGroups(levels)

(***************************************************************************)
(* SMCAnalysisService.findPatterns.  The result says whether the call      *)
(* threw; reading candles[candles.length - 1].timestamp of an empty array  *)
(* is a TypeError.                                                         *)
(***************************************************************************)
RECURSIVE Flat(_, _, _)
Flat(f, lo, hi) == IF lo > hi THEN <<>> ELSE f[lo] \o Flat(f, lo + 1, hi)

findPatterns(candles, patternType) ==
    IF Len(candles) = 0 THEN [threw |-> TRUE, patterns |-> <<>>]
    ELSE
        LET timestamp == candles[Len(candles)].timestamp
            n == Len(candles)
            pattern(direction, price) ==
                [type |-> patternType, direction |-> direction, price |-> price,
                 confidence |-> baseConfidence(patternType), timestamp |-> timestamp]
            on(condition, direction, price) ==
                IF condition THEN <<pattern(direction, price)>> ELSE <<>>
            swings == identifySwings(candles)
            levels == identifyKeyLevels(candles)
            lastPrice == candles[n].close
            patterns ==
                CASE patternType = "OrderBlock" -> findPatternsOrderBlock(candles)
                  [] patternType = "FairValueGap" ->
                       Flat([i \in 2..(n - 1) |->
                               on(candles[i].low > candles[i + 1].high, "bearish",
                                  (candles[i].low + candles[i + 1].high) \div 2)
                               \o on(candles[i].high < candles[i + 1].low, "bullish",
                                     (candles[i].high + candles[i + 1].low) \div 2)],
                            2, n - 1)
                  [] patternType = "ChoCH" ->
                       Flat([i \in 3..Len(swings) |->
                               on(swings[i - 2].type = "LL" /\ swings[i].type = "HH",
                                  "bullish", swings[i].price)
                               \o on(swings[i - 2].type = "HH" /\ swings[i].type = "LL",
                                     "bearish", swings[i].price)],
                            3, Len(swings))
                  [] patternType = "BOS" ->
                       Flat([i \in 2..Len(swings) |->
                               on(swings[i - 1].type = "LH"
                                    /\ swings[i].price > swings[i - 1].price,
                                  "bullish", swings[i].price)
                               \o on(swings[i - 1].type = "HL"
                                       /\ swings[i].price < swings[i - 1].price,
                                     "bearish", swings[i].price)],
                            2, Len(swings))
                  [] patternType = "LiquidityGrab" ->
                       Flat([i \in 3..n |->
                               on(candles[i - 1].low < candles[i - 2].low
                                    /\ candles[i].close > candles[i - 1].high,
                                  "bullish", candles[i - 1].low)
                               \o on(candles[i - 1].high > candles[i - 2].high
                                       /\ candles[i].close < candles[i - 1].low,
                                     "bearish", candles[i - 1].high)],
                            3, n)
                  [] patternType = "BreakerBlock" ->
                       Flat([k \in 1..Len(levels) |->
                               on(levels[k].type = "support" /\ lastPrice < levels[k].price,
                                  "bearish", levels[k].price)
                               \o on(levels[k].type = "resistance"
                                       /\ lastPrice > levels[k].price,
                                     "bullish", levels[k].price)],
                            1, Len(levels))
                  [] patternType = "Imbalance" ->
                       Flat([i \in 2..(n - 1) |->
                               on(candles[i].close * 1000 > candles[i - 1].high * 1005
                                    /\ candles[i + 1].low > candles[i].high,
                                  "bullish", candles[i].close)
                               \o on(candles[i].close * 1000 < candles[i - 1].low * 995
                                       /\ candles[i + 1].high < candles[i].low,
                                     "bearish", candles[i].close)],
                            2, n - 1)
        IN  [threw |-> FALSE, patterns |-> patterns]

(***************************************************************************)
(* SMCTradingBot.calculateConfidenceScore                                  *)
(***************************************************************************)
APlusCriteria == 5             \* criteriaCount >= 5
Count(b) == IF b THEN 1 ELSE 0
LastUpTo(s, n) == SubSeq(s, Max(1, Len(s) - n + 1), Len(s))

checkHigherTimeframeAlignment(pattern, analysis) ==
    LET htfTrend == analysis.marketStructure.trend
        recentSwings ==
            LastUpTo(SelectSeq(analysis.marketStructure.swings,
                               LAMBDA s : s.timestamp > pattern.timestamp - ONE_DAY), 3)
        hasType(type) == \E i \in 1..Len(recentSwings) : recentSwings[i].type = type
    IN  IF pattern.direction = "bullish"
        THEN htfTrend = "uptrend" /\ hasType("HL")
        ELSE htfTrend = "downtrend" /\ hasType("LH")

criteriaCountOf(patterns, analysis) ==
    LET main == patterns[1]
        confluence == \E i \in 2..Len(patterns) :
            /\ Abs(patterns[i].price - main.price) * 1000 < 3 * main.price
            /\ patterns[i].direction = main.direction
        nearbyKeyLevel == \E i \in 1..Len(analysis.keyLevels) :
            /\ Abs(analysis.keyLevels[i].price - main.price) * 1000 < 3 * main.price
            /\ analysis.keyLevels[i].strength >= 70
        hasLiquidity == \E i \in 1..Len(analysis.liquidityLevels) :
            LET lq == analysis.liquidityLevels[i]
            IN  /\ \/ main.direction = "bullish" /\ lq.type = "buy"
                   \/ main.direction = "bearish" /\ lq.type = "sell"
                /\ Abs(lq.price - main.price) * 1000 < 5 * main.price
                /\ lq.stopCluster
    IN  Count(checkHigherTimeframeAlignment(main, analysis))
          + Count(confluence)
          + Count(2 * main.volume > 3 * main.averageVolume)
          + Count(main.cleanBreak /\ ~main.immediateRetrace)
          + Count(nearbyKeyLevel)
          + Count(main.marketStructureAlignment)
          + Count(hasLiquidity)

\* variant: four criteria are enough
isAPlusWithFour(criteriaCount) == criteriaCount >= APlusCriteria - 1

isAPlusOf(criteriaCount) == criteriaCount >= APlusCriteria

calculateConfidenceScore(patterns, analysis) ==
    [isAPlus |-> isAPlusOf(criteriaCountOf(patterns, analysis))]

\* confidenceScore of the plan, in hundredths
confidenceScoreOf(isAPlus) == IF isAPlus THEN 100 ELSE 70

(***************************************************************************)
(* SMCTradingBot.analyzeSMC.  patterns are the patterns found on the 5m    *)
(* and 15m candles, analysis is what analyzeMarket returned and closes are *)
(* the close prices of data5m.last100Candles.                              *)
(***************************************************************************)
MinConfidence == 70            \* 0.7

NoPlan ==
    [direction |-> "", entryPrice |-> 0, stopLoss |-> 0, targets |-> <<>>,
     confidenceScore |-> 0, riskRewardRatio |-> 0, timeframe |-> "",
     isAPlusSetup |-> FALSE]

mapDirectionToTradeDirection(direction) ==
    IF direction = "bullish" THEN "long" ELSE "short"

highConfidencePatternsOf(patterns) ==
    SelectSeq(patterns, LAMBDA p : p.confidence > MinConfidence)

\* the result of the cycle: the plan (or NoPlan for null), the main pattern
\* reached, whether calculateTradeSetup was called, and the setup it handed
\* to queueSetup
analyzeSMC(symbol, patterns, analysis, closes, clk) ==
    LET highConfidencePatterns == highConfidencePatternsOf(patterns)
        sortedPatterns == prioritizePatterns(highConfidencePatterns)
        mainPattern == sortedPatterns[1]
        setup == calculateTradeSetup(mainPattern, analysis, closes, symbol, clk)
        score == calculateConfidenceScore(sortedPatterns, analysis)
        none == [plan |-> NoPlan, main |-> NoPattern, calculated |-> FALSE,
                 queued |-> NoSetup]
    IN  IF Len(highConfidencePatterns) = 0 THEN none
        ELSE IF ~validatePatternAlignment(mainPattern, analysis.marketStructure)
        THEN [none EXCEPT !.main = mainPattern]
        ELSE IF setup.outcome # "setup"
        THEN [none EXCEPT !.main = mainPattern, !.calculated = TRUE,
                          !.queued = setup.queued]
        ELSE [plan |-> [direction |-> mapDirectionToTradeDirection(mainPattern.direction),
                        entryPrice |-> setup.entry,
                        stopLoss |-> setup.stopLoss,
                        targets |-> setup.targets,
                        confidenceScore |-> confidenceScoreOf(score.isAPlus),
                        riskRewardRatio |-> setup.riskRewardRatio,
                        timeframe |-> mainPattern.timeframe,
                        isAPlusSetup |-> score.isAPlus],
              main |-> mainPattern, calculated |-> TRUE, queued |-> NoSetup]

(***************************************************************************)
(* The record of the last call                                             *)
(***************************************************************************)
NoCandles == [amp |-> 0, close |-> 0, timestamps |-> ""]

NoCall ==
    [op |-> "none", symbol |-> "", t |-> 0, price |-> 0, before |-> <<>>,
     setup |-> NoSetup, returned |-> <<>>,
     main |-> NoPattern, calculated |-> FALSE, plan |-> NoPlan,
     candles |-> NoCandles, swings |-> <<>>, keyLevels |-> <<>>,
     trend |-> "", patterns |-> <<>>, arg |-> <<>>, result |-> <<>>,
     forceRefresh |-> FALSE]

(***************************************************************************)
(* Inputs of the queue operations                                          *)
(***************************************************************************)
PriceStep == 2 + 2
FarPrice == 2 * BasePrice
FreshPrice(k) == BasePrice + PriceStep * k
CheckPrices == {BasePrice - 4, BasePrice + 3, FarPrice}

IsFresh(s) ==
    /\ s.ptype = "OrderBlock" /\ s.direction = "bullish"
    /\ (s.entryPrice - BasePrice) % PriceStep = 0

AllFresh(q) == \A i \in 1..Len(q) : IsFresh(q[i])

\* The pattern of a setup handed to queueSetup: a new entry price, one step
\* above the newest stored one, or a variation of the first or the last setup
\* stored for the symbol.
Variations(e) ==
    { [ptype |-> e.ptype, direction |-> e.direction, entryPrice |-> e.entryPrice],
      [ptype |-> e.ptype, direction |-> e.direction, entryPrice |-> e.entryPrice + 2],
      [ptype |-> e.ptype, direction |-> e.direction, entryPrice |-> e.entryPrice - 3],
      [ptype |-> "FairValueGap", direction |-> e.direction, entryPrice |-> e.entryPrice],
      [ptype |-> e.ptype, direction |-> "bearish", entryPrice |-> e.entryPrice] }

Candidates(symbol) ==
    LET q == queuedSetups[symbol]
        freshPrice == IF Len(q) = 0 THEN BasePrice
                      ELSE q[Len(q)].entryPrice + PriceStep
        fresh == IF AllFresh(q) /\ freshPrice < FreshPrice(MaxFresh)
                 THEN {[ptype |-> "OrderBlock", direction |-> "bullish",
                        entryPrice |-> freshPrice]}
                 ELSE {}
        varied == IF AllFresh(q) /\ Len(q) > 0 /\ Len(q) <= MaxVaryLen
                  THEN UNION {Variations(e) : e \in {q[1], q[Len(q)]}}
                  ELSE {}
    IN  fresh \cup varied

(***************************************************************************)
(* Actions of the queue manager                                            *)
(***************************************************************************)
QueueSetup(symbol) ==
    /\ symbol # MainSymbol => Len(queuedSetups[symbol]) < MaxOtherQueue
    /\ (\E other \in Symbols \ {symbol} : Len(queuedSetups[other]) > 0) =>
          /\ Len(queuedSetups[symbol]) < MaxOtherQueue
          /\ \A other \in Symbols : Len(queuedSetups[other]) <= MaxOtherQueue
    /\ \E c \in Candidates(symbol) :
         LET setup == MakeSetup(symbol, c.ptype, c.direction, "5m",
                                c.entryPrice, now, now + SIX_HOURS, BaseThresholdBp)
         IN  /\ queuedSetups' =
                  [queuedSetups EXCEPT ![symbol] = queueSetup(@, setup, now)]
             /\ last' = [NoCall EXCEPT !.op = "queueSetup", !.symbol = symbol,
                                       !.t = now, !.before = queuedSetups[symbol],
                                       !.setup = setup]
    /\ UNCHANGED <<now, klineCache, fetching, db, managerVars>>

CheckQueuedSetups(symbol) ==
    \E price \in CheckPrices :
        /\ queuedSetups' =
             [queuedSetups EXCEPT ![symbol] = checkQueuedSetupsStore(@, price, now)]
        /\ last' = [NoCall EXCEPT
                      !.op = "checkQueuedSetups", !.symbol = symbol, !.t = now,
                      !.price = price, !.before = queuedSetups[symbol],
                      !.returned = checkQueuedSetupsReturn(queuedSetups[symbol], price, now)]
        /\ UNCHANGED <<now, klineCache, fetching, db, managerVars>>

ClearSymbolQueue(symbol) ==
    /\ queuedSetups' = [queuedSetups EXCEPT ![symbol] = <<>>]
    /\ last' = [NoCall EXCEPT !.op = "clearSymbolQueue", !.symbol = symbol, !.t = now,
                              !.before = queuedSetups[symbol]]
    /\ UNCHANGED <<now, klineCache, fetching, db, managerVars>>

ClearAllQueues ==
    /\ queuedSetups' = [s \in Symbols |-> <<>>]
    /\ last' = [NoCall EXCEPT !.op = "clearAllQueues", !.t = now]
    /\ UNCHANGED <<now, klineCache, fetching, db, managerVars>>

Tick ==
    /\ now + TickStep <= MaxNow
    /\ now' = now + TickStep
    /\ last' = NoCall
    /\ UNCHANGED <<queuedSetups, klineCache, fetching, db, managerVars>>

(***************************************************************************)
(* Inputs of an analysis cycle                                             *)
(***************************************************************************)
MaxDrift == 1       \* milliseconds the clock may advance inside one tick window

DeferringCandles ==
    { [amp |-> 10, close |-> BasePrice + 30, timestamps |-> "ascending"], [amp |-> 20, close |-> BasePrice + 100, timestamps |-> "ascending"] }
QuietCandles == [amp |-> 10, close |-> BasePrice, timestamps |-> "ascending"]
\* the 5m series of a cycle with two candles exchanged: the same candles, but
\* their timestamps do not ascend
UnorderedCandles == [QuietCandles EXCEPT !.timestamps = "not ascending"]

\* what createPattern derives from the candles of a timeframe
GoodFacts(trend) ==
    [volume |-> 200, averageVolume |-> 100, cleanBreak |-> TRUE,
     immediateRetrace |-> FALSE, strongReversal |-> TRUE, trend |-> trend]
FactChoices ==
    { GoodFacts("uptrend"), GoodFacts("downtrend"), GoodFacts("sideways"),
      [GoodFacts("uptrend") EXCEPT !.volume = 100],
      [GoodFacts("uptrend") EXCEPT !.immediateRetrace = TRUE] }

\* the lists findPatterns returns for the 5m and the 15m candles
found(type, direction, price, timeframe, timestamp, tf) ==
    createPattern(type, direction, price, baseConfidence(type), timeframe, timestamp, tf)

SinglePatterns(timestamp, tf) ==
    { <<found(type, direction, BasePrice, "5m", timestamp, tf)>> :
        type \in {"BOS", "LiquidityGrab", "OrderBlock", "FairValueGap"},
        direction \in Directions }

PatternChoices(timestamp, tf) ==
    {<<>>} \cup SinglePatterns(timestamp, tf) \cup
    { <<found("BOS", "bullish", BasePrice, "15m", timestamp, tf)>>,
      <<found("OrderBlock", "bullish", BasePrice + 20, "15m", timestamp, tf),
        found("BOS", "bullish", BasePrice, "5m", timestamp, tf)>>,
      <<found("BOS", "bullish", BasePrice + 20, "5m", timestamp, tf),
        found("BOS", "bullish", BasePrice, "15m", timestamp, tf)>> }

DeferredPatterns(timestamp) ==
    { <<found("BOS", "bullish", BasePrice, timeframe, timestamp, GoodFacts("uptrend"))>> :
        timeframe \in {"5m", "15m"} }

\* the swings and key levels of the 4h market structure
RecentAge == 13 * 60 * 60 * 1000
OldAge == 25 * 60 * 60 * 1000
\* the 15m series ends more than a day ago while the 5m series is current
StalePatternChoices(tf) ==
    { <<found("BOS", "bullish", BasePrice, "5m", now, tf),
        found(type, "bullish", BasePrice, "15m", now - OldAge, tf)>> :
        type \in {"BOS", "OrderBlock"} }

level(price, type, strength) == [price |-> price, type |-> type, strength |-> strength]

SwingChoices(t) ==
    { <<>>,
      <<swing(BasePrice - 10, "HL", t - RecentAge)>>,
      <<swing(BasePrice - 50, "HL", t - RecentAge)>>,
      <<swing(BasePrice - 50, "LL", t - RecentAge), swing(BasePrice - 5, "HL", t - RecentAge)>>,
      <<swing(BasePrice - 10, "HL", t - OldAge), swing(BasePrice - 50, "HL", t - RecentAge)>>,
      <<swing(BasePrice + 50, "LH", t - RecentAge), swing(BasePrice + 10, "LH", t - RecentAge)>> }
UsualSwings(t) == <<swing(BasePrice - 50, "HL", t - RecentAge)>>

LevelChoices ==
    { <<>>,
      <<level(BasePrice + 10, "resistance", 100)>>,
      <<level(BasePrice + 100, "resistance", 100), level(BasePrice - 1, "support", 100)>>,
      <<level(BasePrice + 400, "resistance", 100), level(BasePrice + 50, "resistance", 40),
        level(BasePrice + 300, "resistance", 60), level(BasePrice + 100, "resistance", 50),
        level(BasePrice + 200, "resistance", 100), level(BasePrice - 1, "support", 100)>>,
      <<level(BasePrice - 100, "support", 100), level(BasePrice - 200, "support", 50),
        level(BasePrice + 1, "resistance", 100)>> }
UsualLevels ==
    <<level(BasePrice + 100, "resistance", 100), level(BasePrice - 1, "support", 100)>>

liquidity(type, price, stopCluster) ==
    [type |-> type, price |-> price, stopCluster |-> stopCluster]
NoLiquidity == <<>>

analysisOf(trend, swings, keyLevels, liquidityLevels) ==
    [marketStructure |-> [trend |-> trend, swings |-> swings, keyLevels |-> keyLevels],
     liquidityLevels |-> liquidityLevels,
     keyLevels |-> keyLevels]

\* the readings of the clock: it never runs backwards, and the model lets it
\* advance by at most MaxDrift milliseconds inside a tick window
ClockChoices ==
    LET room == MaxDrift - (now % TickStep)
    IN  { [t1 |-> now, t2 |-> now + a, t3 |-> now + a + b, t4 |-> now + a + b + c] :
            a \in 0..1, b \in 0..1, c \in 0..1 } \cap
        { [t1 |-> now, t2 |-> now + a, t3 |-> now + a + b, t4 |-> now + a + b + c] :
            a \in 0..room, b \in 0..room, c \in 0..room }
NoDrift == [t1 |-> now, t2 |-> now, t3 |-> now, t4 |-> now]

\* the gates before the setup calculation
GateInputs ==
    { [patterns |-> ps, trend |-> trend, swings |-> UsualSwings(now), keyLevels |-> UsualLevels,
       candles |-> cs, clk |-> NoDrift] :
         ps \in UNION { PatternChoices(now - age, tf) \cup StalePatternChoices(tf) :
                          age \in {0, OldAge}, tf \in FactChoices },
         trend \in {"uptrend", "downtrend"},
         cs \in {QuietCandles, UnorderedCandles} }

\* the setup calculation
SetupInputs ==
    { [patterns |-> ps, trend |-> "uptrend", swings |-> sw, keyLevels |-> lv,
       candles |-> cs, clk |-> NoDrift] :
         ps \in { <<found("BOS", "bullish", BasePrice, "5m", now, GoodFacts("uptrend"))>>,
                  <<found("BOS", "bearish", BasePrice, "5m", now, GoodFacts("downtrend"))>> },
         sw \in SwingChoices(now), lv \in LevelChoices, cs \in CandleChoices }

\* the deferral, with the clock advancing between its readings
DeferInputs ==
    { [patterns |-> ps, trend |-> "uptrend", swings |-> UsualSwings(now),
       keyLevels |-> UsualLevels, candles |-> cs, clk |-> clk] :
         ps \in DeferredPatterns(now), cs \in DeferringCandles, clk \in ClockChoices }

(***************************************************************************)
(* The kline cache of SMCTradingBot (the version with getKlinesWithCache). *)
(* A CacheEntry holds the candles, named by the time the remote answered,  *)
(* and the timestamp of the call that fetched them.  A call waiting for    *)
(* the remote holds the symbol's Map it read before the await; when the    *)
(* symbol was deleted from klineCache meanwhile that Map is detached.      *)
(***************************************************************************)
MaxFetching == 1    \* getKlinesWithCache calls waiting for the remote at once

CacheIntervals == {"5m", "15m", "1h", "4h", "1d"}
NoEntry == [data |-> -1, timestamp |-> -1]
NoSymbolCache == [interval \in CacheIntervals |-> NoEntry]

cacheExpiryTimes(interval) ==
    CASE interval = "5m" -> 4 * 60 * 1000
      [] interval = "15m" -> 12 * 60 * 1000
      [] interval = "1h" -> 45 * 60 * 1000
      [] interval = "4h" -> 3 * 60 * 60 * 1000
      [] OTHER -> 5 * 60 * 1000

\* variant: an entry as old as its expiry time is still valid
isCacheValidAtExpiry(cacheEntry, interval, forceRefresh, t) ==
    /\ cacheEntry # NoEntry
    /\ t - cacheEntry.timestamp <= cacheExpiryTimes(interval)
    /\ ~forceRefresh

isCacheValid(cacheEntry, interval, forceRefresh, t) ==
    /\ cacheEntry # NoEntry
    /\ t - cacheEntry.timestamp < cacheExpiryTimes(interval)
    /\ ~forceRefresh

\* getKlinesWithCache up to the await: a valid entry is returned, otherwise
\* the call waits for the remote
GetKlinesWithCache(symbol, interval, forceRefresh) ==
    LET cacheEntry == klineCache[symbol][interval]
    IN  /\ IF isCacheValid(cacheEntry, interval, forceRefresh, now)
           THEN /\ last' = [NoCall EXCEPT !.op = "getKlinesWithCache", !.symbol = symbol,
                                          !.t = now, !.arg = interval,
                                          !.forceRefresh = forceRefresh,
                                          !.result = cacheEntry.data]
                /\ UNCHANGED <<fetching, db, managerVars>>
           ELSE /\ Cardinality(fetching) < MaxFetching
                /\ fetching' = fetching \cup
                     {[symbol |-> symbol, interval |-> interval, now |-> now,
                       cacheEntry |-> cacheEntry, detached |-> FALSE]}
                /\ last' = [NoCall EXCEPT !.op = "fetch", !.symbol = symbol,
                                          !.t = now, !.arg = interval,
                                          !.forceRefresh = forceRefresh]
        /\ UNCHANGED <<now, queuedSetups, klineCache, db, managerVars>>

\* the remote answered: the entry is set in the Map the call holds
FetchSucceeds(f) ==
    /\ f \in fetching
    /\ fetching' = fetching \ {f}
    /\ klineCache' =
         IF f.detached THEN klineCache
         ELSE [klineCache EXCEPT ![f.symbol][f.interval] =
                  [data |-> now, timestamp |-> f.now]]
    /\ last' = [NoCall EXCEPT !.op = "fetched", !.symbol = f.symbol, !.t = now,
                              !.arg = f.interval, !.result = now]
    /\ UNCHANGED <<now, queuedSetups, db, managerVars>>

\* the remote failed: the entry read before the await is returned, stale or
\* not, and without one the error is thrown
FetchFails(f) ==
    /\ f \in fetching
    /\ fetching' = fetching \ {f}
    /\ last' = [NoCall EXCEPT !.op = IF f.cacheEntry # NoEntry THEN "fetch failed, stale"
                                     ELSE "fetch failed, thrown",
                              !.symbol = f.symbol, !.t = now, !.arg = f.interval,
                              !.result = f.cacheEntry.data]
    /\ UNCHANGED <<now, queuedSetups, klineCache, db, managerVars>>

\* variant: the whole klineCache is cleared
ClearSymbolCacheDroppingAll(symbol) ==
    /\ klineCache' = [s \in Symbols |-> NoSymbolCache]
    /\ fetching' = { [f EXCEPT !.detached = TRUE] : f \in fetching }
    /\ last' = [NoCall EXCEPT !.op = "clearSymbolCache", !.symbol = symbol, !.t = now]
    /\ UNCHANGED <<now, queuedSetups, db, managerVars>>

ClearSymbolCache(symbol) ==
    /\ klineCache' = [klineCache EXCEPT ![symbol] = NoSymbolCache]
    /\ fetching' = { IF f.symbol = symbol THEN [f EXCEPT !.detached = TRUE] ELSE f :
                       f \in fetching }
    /\ last' = [NoCall EXCEPT !.op = "clearSymbolCache", !.symbol = symbol, !.t = now]
    /\ UNCHANGED <<now, queuedSetups, db, managerVars>>

ClearCache ==
    /\ klineCache' = [s \in Symbols |-> NoSymbolCache]
    /\ fetching' = { [f EXCEPT !.detached = TRUE] : f \in fetching }
    /\ last' = [NoCall EXCEPT !.op = "clearCache", !.t = now]
    /\ UNCHANGED <<now, queuedSetups, db, managerVars>>

(***************************************************************************)
(* Actions of the bot                                                      *)
(***************************************************************************)
AnalyzeSMC(symbol, inputs) ==
    \E in \in inputs :
        LET result == analyzeSMC(symbol, in.patterns,
                                 analysisOf(in.trend, in.swings, in.keyLevels, NoLiquidity),
                                 closesOf(in.candles), in.clk)
        IN  /\ queuedSetups' =
                 IF result.queued = NoSetup THEN queuedSetups
                 ELSE [queuedSetups EXCEPT
                         ![symbol] = queueSetup(@, result.queued, in.clk.t4)]
            /\ last' = [NoCall EXCEPT
                          !.op = "analyzeSMC", !.symbol = symbol, !.t = now,
                          !.price = in.candles.close, !.before = queuedSetups[symbol],
                          !.setup = result.queued, !.main = result.main,
                          !.calculated = result.calculated,
                          !.plan = result.plan, !.candles = in.candles,
                          !.swings = in.swings, !.keyLevels = in.keyLevels,
                          !.trend = in.trend, !.patterns = in.patterns]
            /\ now' = IF result.queued = NoSetup THEN now ELSE in.clk.t4
            /\ UNCHANGED <<klineCache, fetching, db, managerVars>>

ClearQueuedSetups(symbol) == ClearSymbolQueue(symbol)

(***************************************************************************)
(* The database and the trading manager when they are constructed          *)
(***************************************************************************)
InitialBalance == 10000 * 10    \* the wallet row of initializeWallet, in tenths

EmptyDatabase ==
    [trading_plans |-> <<>>, trades |-> <<>>, wallet |-> [balance |-> InitialBalance]]

NoHandle == <<"", 0>>
NoTimers == [made |-> [kind \in {"price", "scan", "monitor"} |-> 0], live |-> {}]

Constructed ==
    /\ db = EmptyDatabase
    /\ isRunning = FALSE
    /\ timers = NoTimers
    /\ monitorIntervals = [s \in Symbols |-> NoHandle]
    /\ priceUpdateInterval = NoHandle
    /\ currentPrices = [s \in Symbols |-> 0]
    /\ calls = <<>>

Init ==
    /\ Constructed
    /\ now = 0
    /\ queuedSetups = [s \in Symbols |-> <<>>]
    /\ last = NoCall
    /\ klineCache = [s \in Symbols |-> NoSymbolCache]
    /\ fetching = {}

NextQueue ==
    \/ \E symbol \in Symbols : QueueSetup(symbol)
    \/ \E symbol \in Symbols : CheckQueuedSetups(symbol)
    \/ \E symbol \in Symbols : ClearSymbolQueue(symbol)
    \/ ClearAllQueues
    \/ Tick

SpecQueue == Init /\ [][NextQueue]_vars

\* the queues and the 5m kline cache of several symbols used side by side, at
\* one reading of the clock
NextIsolation ==
    \/ \E symbol \in Symbols :
         Len(queuedSetups[symbol]) < MaxOtherQueue /\ QueueSetup(symbol)
    \/ \E symbol \in Symbols : CheckQueuedSetups(symbol)
    \/ \E symbol \in Symbols : ClearSymbolQueue(symbol)
    \/ \E symbol \in Symbols, forceRefresh \in BOOLEAN :
         GetKlinesWithCache(symbol, "5m", forceRefresh)
    \/ \E f \in fetching : FetchSucceeds(f)
    \/ \E f \in fetching : FetchFails(f)
    \/ \E symbol \in Symbols : ClearSymbolCache(symbol)

SpecIsolation == Init /\ [][NextIsolation]_vars

\* the caller takes the result of the call
Return ==
    /\ last.op # "none"
    /\ last' = NoCall
    /\ UNCHANGED <<now, queuedSetups, klineCache, fetching, db, managerVars>>

NextBot ==
    \/ last.op = "none" /\ AnalyzeSMC(MainSymbol, GateInputs \cup SetupInputs)
    \/ last.op = "none" /\ ClearQueuedSetups(MainSymbol)
    \/ last.op = "none" /\ Tick
    \/ Return

SpecBot == Init /\ [][NextBot]_vars

NextDefer ==
    \/ last.op = "none" /\ AnalyzeSMC(MainSymbol, DeferInputs)
    \/ last.op = "none" /\ ClearQueuedSetups(MainSymbol)
    \/ last.op = "none" /\ Tick
    \/ Return

SpecDefer == Init /\ [][NextDefer]_vars

(***************************************************************************)
(* The functions taken alone (SpecFunctions): the initial state holds the  *)
(* argument of one call, the action of the function makes the call.        *)
(***************************************************************************)
MaxRankLen == 3     \* longest list given to prioritizePatterns
Lists(S, n) == UNION { [1..k -> S] : k \in 1..n }

\* candidates of prioritizePatterns: analyzeSMC passes 5m and 15m patterns,
\* analyzeMarket those of the 4h, 1h, 15m and 5m candles
RankInputs ==
    LET RankPattern(type, timeframe, confidence, timestamp) ==
            createPattern(type, "bullish", BasePrice, confidence, timeframe, timestamp,
                          GoodFacts("uptrend"))
        ScannedRankPatterns ==
            { RankPattern(type, timeframe, confidence, timestamp) :
                type \in {"BOS", "OrderBlock"}, timeframe \in {"5m", "15m"},
                confidence \in {80, 90}, timestamp \in {0, 1} }
        MarketRankPatterns ==
            { RankPattern(type, timeframe, 80, 0) :
                type \in {"BOS", "OrderBlock"}, timeframe \in {"5m", "15m", "1h", "4h"} }
    IN  Lists(ScannedRankPatterns, MaxRankLen) \cup Lists(MarketRankPatterns, 2)

Call(op, arg) == [NoCall EXCEPT !.op = op, !.arg = arg]
Done(op, result) == [last EXCEPT !.op = op, !.result = result]

PrioritizePatterns ==
    /\ last.op = "call prioritizePatterns"
    /\ last' = Done("prioritizePatterns", prioritizePatterns(last.arg))
    /\ UNCHANGED <<now, queuedSetups, klineCache, fetching, db, managerVars>>

\* arguments of identifySwings: series of candles in a flat range of which at
\* most MaxSpikes reach above or below it
SwingSeriesLen == 12    \* candles in a series
MaxSpikes == 3          \* candles of a series outside the flat range
RECURSIVE ShapeSeries(_, _)
ShapeSeries(n, spikes) ==
    LET FlatShape == [high |-> 30, low |-> 20]
        SpikeShapes == { [high |-> 40, low |-> 20], [high |-> 30, low |-> 10] }
    IN  IF n = 0 THEN { <<>> }
        ELSE { Append(s, FlatShape) : s \in ShapeSeries(n - 1, spikes) }
               \cup (IF spikes = 0 THEN {}
                     ELSE { Append(s, shape) :
                              s \in ShapeSeries(n - 1, spikes - 1), shape \in SpikeShapes })
SwingInputs ==
    LET candlesOf(shapes) ==
            [i \in 1..Len(shapes) |->
                [high |-> shapes[i].high, low |-> shapes[i].low, timestamp |-> now + i]]
    IN  { candlesOf(shapes) :
            shapes \in UNION { ShapeSeries(n, MaxSpikes) :
                                 n \in {0, 1, 2 * lookback, 2 * lookback + 1,
                                        SwingSeriesLen} } }

IdentifySwings ==
    /\ last.op = "call identifySwings"
    /\ last' = Done("identifySwings", identifySwings(last.arg))
    /\ UNCHANGED <<now, queuedSetups, klineCache, fetching, db, managerVars>>

\* arguments of groupNearbyLevels: at most MaxLevelPrices swing prices, apart
\* by 0.15%, 0.25%, 0.4% and 1% of the lowest
MaxLevelPrices == 3
LevelInputs ==
    LET LevelBase == 2 * BasePrice
        LevelPrices == { Whole(LevelBase + d) : d \in {0, 3, 5, 8, 20} }
    IN  { <<>> } \cup Lists(LevelPrices, MaxLevelPrices)

GroupNearbyLevels ==
    /\ last.op = "call groupNearbyLevels"
    /\ last' = Done("groupNearbyLevels", groupNearbyLevels(last.arg))
    /\ UNCHANGED <<now, queuedSetups, klineCache, fetching, db, managerVars>>

\* groupNearbyLevels on the prices of the groups it returned
GroupGroupedLevels ==
    /\ last.op = "groupNearbyLevels"
    /\ last' = [last EXCEPT
                  !.op = "groupNearbyLevels again",
                  !.before = last.result,
                  !.result = groupNearbyLevels(
                                 [i \in 1..Len(last.result) |-> last.result[i].price])]
    /\ UNCHANGED <<now, queuedSetups, klineCache, fetching, db, managerVars>>

\* arguments of the order-block recognisers: windows of at most MaxWindow
\* candles; the close of a rising candle lies above, at or below the high of
\* the falling one, the close of a falling candle below or at the low of the
\* rising ones
MaxWindow == 4
WindowInputs ==
    LET WindowShapes ==
            { [open |-> 100, close |-> 90, high |-> 102, low |-> 88],
              [open |-> 96, close |-> 108, high |-> 110, low |-> 94],
              [open |-> 96, close |-> 102, high |-> 104, low |-> 94],
              [open |-> 100, close |-> 86, high |-> 102, low |-> 84],
              [open |-> 100, close |-> 94, high |-> 102, low |-> 92],
              [open |-> 100, close |-> 100, high |-> 102, low |-> 98],
              [open |-> 120, close |-> 124, high |-> 126, low |-> 118] }
        windowOf(shapes) ==
            [i \in 1..Len(shapes) |->
                [open |-> shapes[i].open, close |-> shapes[i].close,
                 high |-> shapes[i].high, low |-> shapes[i].low, timestamp |-> now + i]]
    IN  { windowOf(shapes) : shapes \in Lists(WindowShapes, MaxWindow) }

FindPatternsOrderBlock ==
    /\ last.op = "call findPatterns"
    /\ last' = Done("findPatterns", findPatternsOrderBlock(last.arg))
    /\ UNCHANGED <<now, queuedSetups, klineCache, fetching, db, managerVars>>

\* findPatterns for every pattern type, on the windows, the empty series and,
\* for the types found from swings, the series given to identifySwings too
FindPatterns ==
    /\ last.op = "call findPatterns of type"
    /\ last' = Done("findPatterns of type",
                    findPatterns(last.arg.candles, last.arg.patternType))
    /\ UNCHANGED <<now, queuedSetups, klineCache, fetching, db, managerVars>>

FindOrderBlocks ==
    /\ last.op = "call findOrderBlocks"
    /\ last' = Done("findOrderBlocks", findOrderBlocks(last.arg))
    /\ UNCHANGED <<now, queuedSetups, klineCache, fetching, db, managerVars>>

\* arguments of calculateConfidenceScore: a main pattern found on the current
\* candle, at most one other pattern, and an analysis; every criterion is met
\* by some and missed by others, the distances and strengths lie on both
\* sides of the thresholds
ScoreInputs ==
    LET ScoreFacts ==
            { [volume |-> volume, averageVolume |-> 100, cleanBreak |-> flags[1],
               immediateRetrace |-> flags[2], strongReversal |-> TRUE, trend |-> trend] :
                volume \in {150, 151},
                flags \in {<<TRUE, FALSE>>, <<TRUE, TRUE>>, <<FALSE, FALSE>>},
                trend \in {"uptrend", "downtrend"} }
        ScoreOther(direction, price) ==
            found("OrderBlock", direction, price, "5m", now, GoodFacts("uptrend"))
        ScoreOthers ==
            { <<>>, <<ScoreOther("bullish", BasePrice + 2)>>,
              <<ScoreOther("bullish", BasePrice + 3)>>,
              <<ScoreOther("bearish", BasePrice - 2)>> }
        ScoreSwings ==
            { <<>>,
              <<swing(BasePrice - 50, "HL", now - RecentAge)>>,
              <<swing(BasePrice + 50, "LH", now - RecentAge)>>,
              <<swing(BasePrice - 50, "HL", now - OldAge),
                swing(BasePrice + 50, "LH", now - OldAge)>> }
        ScoreLevels ==
            { <<>>,
              <<level(BasePrice + 2, "resistance", 70)>>,
              <<level(BasePrice + 2, "resistance", 69)>>,
              <<level(BasePrice + 3, "resistance", 100)>> }
        ScoreLiquidity ==
            { <<>>,
              <<liquidity("buy", BasePrice - 4, TRUE)>>,
              <<liquidity("buy", BasePrice - 5, TRUE)>>,
              <<liquidity("buy", BasePrice - 4, FALSE)>>,
              <<liquidity("sell", BasePrice + 4, TRUE)>> }
    IN  { [patterns |-> <<found("BOS", direction, BasePrice, "15m", now, tf)>> \o others,
           analysis |-> analysisOf(trend, swings, keyLevels, liquidityLevels)] :
            direction \in {"bullish", "bearish"}, tf \in ScoreFacts, others \in ScoreOthers,
            trend \in {"uptrend", "downtrend"}, swings \in ScoreSwings,
            keyLevels \in ScoreLevels, liquidityLevels \in ScoreLiquidity }

CalculateConfidenceScore ==
    /\ last.op = "call calculateConfidenceScore"
    /\ last' = Done("calculateConfidenceScore",
                    calculateConfidenceScore(last.arg.patterns, last.arg.analysis))
    /\ UNCHANGED <<now, queuedSetups, klineCache, fetching, db, managerVars>>

InitFunctions ==
    /\ Constructed
    /\ now = 0
    /\ queuedSetups = [s \in Symbols |-> <<>>]
    /\ klineCache = [s \in Symbols |-> NoSymbolCache]
    /\ fetching = {}
    /\ \/ \E ps \in RankInputs : last = Call("call prioritizePatterns", ps)
       \/ \E in \in ScoreInputs : last = Call("call calculateConfidenceScore", in)
       \/ \E candles \in SwingInputs : last = Call("call identifySwings", candles)
       \/ \E prices \in LevelInputs : last = Call("call groupNearbyLevels", prices)
       \/ \E candles \in WindowInputs :
            \E op \in {"call findPatterns", "call findOrderBlocks"} :
                last = Call(op, candles)
       \/ \E candles \in WindowInputs \cup {<<>>} : \E patternType \in PatternTypes :
            last = Call("call findPatterns of type",
                        [candles |-> candles, patternType |-> patternType])
       \/ \E candles \in SwingInputs : \E patternType \in {"ChoCH", "BOS"} :
            last = Call("call findPatterns of type",
                        [candles |-> candles, patternType |-> patternType])

NextFunctions ==
    \/ PrioritizePatterns
    \/ CalculateConfidenceScore
    \/ IdentifySwings
    \/ GroupNearbyLevels
    \/ GroupGroupedLevels
    \/ FindPatternsOrderBlock
    \/ FindPatterns
    \/ FindOrderBlocks

SpecFunctions == InitFunctions /\ [][NextFunctions]_vars


(***************************************************************************)
(* Properties of the queue (SpecQueue)                                     *)
(***************************************************************************)
Unexpired(s, t) == s.expiryTime > t
StoredQueue == queuedSetups[last.symbol]

\* C2 (as claimed): checkQueuedSetups at time t never returns a setup whose
\* expiryTime <= t.
C2_NoExpiredTriggered ==
    last.op = "checkQueuedSetups" =>
        \A s \in Range(last.returned) : Unexpired(s, last.t)

\* C3 (as claimed): after queueSetup or checkQueuedSetups at time t the stored
\* queue of the symbol holds no setup with expiryTime <= t.
C3_ExpiredPurged ==
    last.op \in {"queueSetup", "checkQueuedSetups"} =>
        \A s \in Range(StoredQueue) : Unexpired(s, last.t)

\* C4: checkQueuedSetups returns a setup only if the price lies in its band;
\* every returned setup is gone from the stored queue; the unexpired setups
\* that were not returned are all still stored, in their original order.
C4_TriggerExactAndConsuming ==
    last.op = "checkQueuedSetups" =>
        /\ \A s \in Range(last.returned) :
             /\ s \in Range(last.before)
             /\ s.min <= last.price * BP /\ last.price * BP <= s.max
             /\ s \notin Range(StoredQueue)
        /\ SelectSeq(last.before,
                     LAMBDA s : Unexpired(s, last.t) /\ s \notin Range(last.returned))
             = SelectSeq(StoredQueue, LAMBDA s : Unexpired(s, last.t))

C4_Witness ==
    /\ last.op = "checkQueuedSetups"
    /\ Len(last.returned) >= 2
    /\ Len(StoredQueue) >= 2
    /\ \E s \in Range(StoredQueue) : Unexpired(s, last.t)
    /\ \E s \in Range(last.before) :
         Unexpired(s, last.t) /\ s.min <= last.price * BP /\ last.price * BP <= s.max

\* C6: the queue of every symbol holds at most 10 setups.
C6_QueueSizeBound ==
    \A symbol \in Symbols : Len(queuedSetups[symbol]) <= 10

C6_Witness ==
    /\ last.op = "queueSetup"
    /\ Len(last.before) = 10
    /\ Len(StoredQueue) = 10
    /\ StoredQueue[10] = last.setup
    /\ StoredQueue # last.before

\* C7: queueSetup on a queue of 10 unexpired setups, with a setup that is no
\* duplicate of any of them, removes the earliest inserted one, keeps the
\* other nine in order and appends the new one; no call removes an unexpired
\* setup other than the earliest, and the earliest only when the queue is full.
IsDuplicateOf(existing, setup) ==
    /\ existing.ptype = setup.ptype
    /\ existing.direction = setup.direction
    /\ Abs(existing.entryPrice - setup.entryPrice) * 1000 < 3 * setup.entryPrice

C7_FifoEviction ==
    last.op = "queueSetup" =>
        /\ ( /\ Len(last.before) = 10
             /\ \A s \in Range(last.before) :
                  Unexpired(s, last.t) /\ ~IsDuplicateOf(s, last.setup) )
           => StoredQueue = Tail(last.before) \o <<last.setup>>
        /\ \A i \in 2..Len(last.before) :
             Unexpired(last.before[i], last.t) => last.before[i] \in Range(StoredQueue)
        /\ ( /\ Len(last.before) > 0
             /\ Unexpired(last.before[1], last.t)
             /\ last.before[1] \notin Range(StoredQueue) )
           => ( Len(last.before) = 10 /\ StoredQueue[Len(StoredQueue)] = last.setup )

C7_Witness ==
    /\ last.op = "queueSetup"
    /\ Len(last.before) = 10
    /\ \A s \in Range(last.before) : Unexpired(s, last.t) /\ ~IsDuplicateOf(s, last.setup)
    /\ StoredQueue = Tail(last.before) \o <<last.setup>>

\* C8 (as claimed): when the queue holds an unexpired setup of the same
\* pattern type and direction with an entry price within 0.3% of the new
\* one's, queueSetup adds nothing and leaves the unexpired entries as they
\* were; a setup that matches no unexpired entry is added.
C8_DuplicatesDiscarded ==
    last.op = "queueSetup" =>
        LET matched == \E s \in Range(last.before) :
                           Unexpired(s, last.t) /\ IsDuplicateOf(s, last.setup)
        IN  /\ matched =>
                 SelectSeq(StoredQueue, LAMBDA s : Unexpired(s, last.t))
                   = SelectSeq(last.before, LAMBDA s : Unexpired(s, last.t))
            /\ ~matched =>
                 /\ Len(StoredQueue) > 0
                 /\ StoredQueue[Len(StoredQueue)] = last.setup

(***************************************************************************)
(* Properties of the analysis cycle (SpecBot, SpecDefer)                   *)
(***************************************************************************)
\* the standard deviation of the close-to-close returns of the last 20 candles
\* of the cycle, in basis points
CycleVolatility == calculateVolatility(LastN(closesOf(last.candles), 20))
CycleThreshold == IF CycleVolatility > 150 THEN 2 * CycleVolatility ELSE 50
InBand(s, price) == s.min <= price * BP /\ price * BP <= s.max

\* C1 (as claimed): when calculateTradeSetup is called with a 5m or 15m main
\* pattern not older than 24 hours and the current price is further from the
\* entry than the threshold (0.5%, or twice the volatility when that is above
\* 1.5%), the cycle returns no plan and, from an empty queue, leaves exactly
\* one queued setup whose band is [entry*(1-threshold), entry*(1+threshold)]
\* and whose expiryTime is 6 hours after its queueTime.
C1_DeferInsteadOfReject ==
    ( /\ last.op = "analyzeSMC"
      /\ last.calculated
      /\ last.main.timeframe \in {"5m", "15m"}
      /\ last.main.timestamp >= last.t - ONE_DAY
      /\ Abs(last.price - last.main.price) * BP > CycleThreshold * last.main.price )
    => /\ last.plan = NoPlan
       /\ last.before = <<>> =>
            /\ Len(StoredQueue) = 1
            /\ StoredQueue[1].entryPrice = last.main.price
            /\ StoredQueue[1].min = last.main.price * (BP - CycleThreshold)
            /\ StoredQueue[1].max = last.main.price * (BP + CycleThreshold)
            /\ StoredQueue[1].expiryTime = StoredQueue[1].queueTime + SIX_HOURS

\* C1, the part that holds: no plan, one queued setup with the band of the
\* claim, and an expiryTime no earlier than 6 hours after the queueTime.
C1_DeferralApartFromExpiry ==
    ( /\ last.op = "analyzeSMC"
      /\ last.calculated
      /\ last.main.timeframe \in {"5m", "15m"}
      /\ last.main.timestamp >= last.t - ONE_DAY
      /\ Abs(last.price - last.main.price) * BP > CycleThreshold * last.main.price )
    => /\ last.plan = NoPlan
       /\ last.before = <<>> =>
            /\ Len(StoredQueue) = 1
            /\ StoredQueue[1].min = last.main.price * (BP - CycleThreshold)
            /\ StoredQueue[1].max = last.main.price * (BP + CycleThreshold)
            /\ StoredQueue[1].expiryTime >= StoredQueue[1].queueTime + SIX_HOURS

\* C5 (as claimed): a cycle first checks the queue of the symbol against the
\* current price: an unexpired queued setup whose band holds the price is
\* taken out of the queue and decides the result of the cycle.
C5_QueueCheckedFirst ==
    last.op = "analyzeSMC" =>
        \A s \in Range(last.before) :
            (Unexpired(s, last.t) /\ InBand(s, last.price)) =>
                /\ s \notin Range(StoredQueue)
                /\ last.main.type = s.ptype
                /\ last.main.price = s.entryPrice

\* C9: every plan carries riskRewardRatio = |targets[0] - entry| / |stopLoss -
\* entry| and that ratio is at least 1.5; a calculation that reaches the
\* ratio with a value below 1.5 yields no plan.
C9_RiskRewardFloor ==
    last.op = "analyzeSMC" =>
        /\ last.plan # NoPlan =>
             /\ Len(last.plan.targets) >= 1
             /\ last.plan.riskRewardRatio =
                  (Abs(last.plan.targets[1] - last.plan.entryPrice) * BP * 100)
                     \div Abs(last.plan.stopLoss - last.plan.entryPrice * BP)
             /\ 2 * Abs(last.plan.targets[1] - last.plan.entryPrice) * BP
                  >= 3 * Abs(last.plan.stopLoss - last.plan.entryPrice * BP)
        /\ (last.calculated /\ last.setup = NoSetup) =>
             LET entry == last.main.price
                 stop == stopLossOf(relevantSwingsOf(last.swings, last.main.direction,
                                                     entry, last.t - ONE_DAY),
                                    last.main.direction, entry, CycleVolatility)
                 targets == targetsOf(last.keyLevels, last.main.direction, entry)
             IN  ( /\ Len(targets) >= 1
                   /\ stop # entry * BP
                   /\ 2 * Abs(targets[1] - entry) * BP < 3 * Abs(stop - entry * BP) )
                 => last.plan = NoPlan

\* entry 1000, stop 950, first target 1100: accepted with ratio 2
C9_Witness ==
    /\ last.op = "analyzeSMC"
    /\ last.plan # NoPlan
    /\ last.plan.entryPrice = 1000
    /\ last.plan.stopLoss = 950 * BP
    /\ last.plan.targets[1] = 1100
    /\ last.plan.riskRewardRatio = 200
    /\ Len(last.plan.targets) = 3

\* entry 1000, stop 990, first target 1010: rejected
C9_RejectedExample ==
    /\ last.op = "analyzeSMC"
    /\ last.calculated /\ last.setup = NoSetup
    /\ last.main.price = 1000 /\ last.main.direction = "bullish"
    /\ last.swings = <<swing(990, "HL", last.t - RecentAge)>>
    /\ last.keyLevels = <<level(1010, "resistance", 100)>>
    /\ CycleVolatility * 12 <= 1000
    /\ last.plan = NoPlan

\* C10: in every plan |entryPrice - stopLoss| / entryPrice is at least
\* max(1.2 * volatility, 0.8%), with the volatility of the last 20 5m candles,
\* for a stop taken from a swing and for the volatility fallback alike.
C10_MinimumStopDistance ==
    (last.op = "analyzeSMC" /\ last.plan # NoPlan) =>
        /\ Abs(last.plan.entryPrice * BP - last.plan.stopLoss) * 10
             >= 12 * CycleVolatility * last.plan.entryPrice
        /\ Abs(last.plan.entryPrice * BP - last.plan.stopLoss) * 1000
             >= 8 * BP * last.plan.entryPrice

\* a plan whose stop is the volatility fallback, the volatility term binding
C10_Witness ==
    /\ last.op = "analyzeSMC"
    /\ last.plan # NoPlan
    /\ last.swings = <<>>
    /\ 12 * CycleVolatility > 800
    /\ last.plan.stopLoss = last.plan.entryPrice * (BP - 2 * CycleVolatility)

\* a plan whose stop is a swing
C10_SwingStop ==
    /\ last.op = "analyzeSMC"
    /\ last.plan # NoPlan
    /\ \E i \in 1..Len(last.swings) : last.plan.stopLoss = last.swings[i].price * BP

\* C11: every plan has 1 to 3 targets, each the price of a key level of
\* strength >= 0.5; a long plan has stopLoss < entryPrice < targets[0] <=
\* targets[1] <= targets[2], a short plan the reverse; the plan is long iff
\* the main pattern is bullish.
C11_LevelsOrdered ==
    (last.op = "analyzeSMC" /\ last.plan # NoPlan) =>
        LET plan == last.plan
            n == Len(plan.targets)
        IN  /\ n >= 1 /\ n <= 3
            /\ \A i \in 1..n :
                 \E j \in 1..Len(last.keyLevels) :
                     /\ last.keyLevels[j].price = plan.targets[i]
                     /\ last.keyLevels[j].strength >= 50
            /\ plan.direction \in {"long", "short"}
            /\ plan.direction = "long" <=> last.main.direction = "bullish"
            /\ plan.direction = "long" =>
                 /\ plan.stopLoss < plan.entryPrice * BP
                 /\ plan.entryPrice < plan.targets[1]
                 /\ \A i \in 1..(n - 1) : plan.targets[i] <= plan.targets[i + 1]
            /\ plan.direction = "short" =>
                 /\ plan.stopLoss > plan.entryPrice * BP
                 /\ plan.entryPrice > plan.targets[1]
                 /\ \A i \in 1..(n - 1) : plan.targets[i] >= plan.targets[i + 1]

\* a short plan with two targets, the nearer first, out of three key levels
C11_Witness ==
    /\ last.op = "analyzeSMC"
    /\ last.plan # NoPlan
    /\ last.plan.direction = "short"
    /\ Len(last.plan.targets) = 2
    /\ last.plan.targets[1] > last.plan.targets[2]
    /\ Len(last.keyLevels) = 3

\* a long plan with three targets out of six key levels
C11_LongThreeTargets ==
    /\ last.op = "analyzeSMC"
    /\ last.plan # NoPlan
    /\ last.plan.direction = "long"
    /\ Len(last.plan.targets) = 3
    /\ Len(last.keyLevels) > 3

\* C12 (as claimed): a main pattern whose direction opposes the trend of the
\* market structure (bullish in a downtrend, bearish in an uptrend) fails
\* validatePatternAlignment, whatever its type, and the cycle returns no plan.
C12_OpposingTrendRejected ==
    ( /\ last.op = "analyzeSMC"
      /\ last.main # NoPattern
      /\ \/ last.main.direction = "bullish" /\ last.trend = "downtrend"
         \/ last.main.direction = "bearish" /\ last.trend = "uptrend" )
    => (~last.calculated /\ last.plan = NoPlan)

\* C13 (as claimed): patterns with a timestamp more than 24 hours before the
\* evaluation time are removed before the ranking: the main pattern is never
\* such a pattern, and the cycle gives the plan it gives for the list without
\* them.
FreshPatternsOf(patterns, t) ==
    SelectSeq(patterns, LAMBDA p : p.timestamp >= t - ONE_DAY)

C13_OldPatternsExcluded ==
    last.op = "analyzeSMC" =>
        /\ last.main # NoPattern => last.main.timestamp >= last.t - ONE_DAY
        /\ last.plan =
             analyzeSMC(last.symbol, FreshPatternsOf(last.patterns, last.t),
                        analysisOf(last.trend, last.swings, last.keyLevels, NoLiquidity),
                        closesOf(last.candles),
                        [t1 |-> last.t, t2 |-> last.t, t3 |-> last.t, t4 |-> last.t]).plan

\* the visible half of C13 alone: an old pattern does not hide a fresh one
C13_FreshPatternStillConsidered ==
    last.op = "analyzeSMC" =>
        last.plan =
          analyzeSMC(last.symbol, FreshPatternsOf(last.patterns, last.t),
                     analysisOf(last.trend, last.swings, last.keyLevels, NoLiquidity),
                     closesOf(last.candles),
                     [t1 |-> last.t, t2 |-> last.t, t3 |-> last.t, t4 |-> last.t]).plan

(***************************************************************************)
(* Properties of the functions (SpecFunctions)                             *)
(***************************************************************************)
\* the order of the ranking as claimed
TypeWeight(type) ==
    CASE type = "BOS" -> 5 [] type = "ChoCH" -> 4 [] type = "LiquidityGrab" -> 3
      [] type = "OrderBlock" -> 2 [] type = "FairValueGap" -> 1
TimeframeWeight(timeframe) ==
    CASE timeframe = "4h" -> 4 [] timeframe = "1h" -> 3
      [] timeframe = "15m" -> 2 [] timeframe = "5m" -> 1
StrictlyPrecedes(a, b) ==
    \/ TypeWeight(a.type) > TypeWeight(b.type)
    \/ /\ TypeWeight(a.type) = TypeWeight(b.type)
       /\ \/ TimeframeWeight(a.timeframe) > TimeframeWeight(b.timeframe)
          \/ /\ TimeframeWeight(a.timeframe) = TimeframeWeight(b.timeframe)
             /\ \/ a.confidence > b.confidence
                \/ a.confidence = b.confidence /\ a.timestamp > b.timestamp

\* C14 (as claimed): for every non-empty candidate list, whatever its order
\* and the timeframes in it, no candidate strictly precedes the first
\* element of prioritizePatterns(list) in the order type weight, timeframe
\* weight (higher timeframe first), confidence, timestamp.
C14_MainPatternIsMaximum ==
    last.op = "prioritizePatterns" =>
        /\ Len(last.result) = Len(last.arg)
        /\ \A i \in 1..Len(last.arg) : ~StrictlyPrecedes(last.arg[i], last.result[1])

\* C14 on the lists analyzeSMC ranks (5m and 15m patterns only)
C14_MaximumOnScannedTimeframes ==
    ( /\ last.op = "prioritizePatterns"
      /\ \A i \in 1..Len(last.arg) : last.arg[i].timeframe \in {"5m", "15m"} )
    => \A i \in 1..Len(last.arg) : ~StrictlyPrecedes(last.arg[i], last.result[1])

(***************************************************************************)
(* Properties across symbols (SpecIsolation)                               *)
(***************************************************************************)
SymbolCalls ==
    {"queueSetup", "checkQueuedSetups", "clearSymbolQueue", "getKlinesWithCache",
     "fetch", "fetched", "fetch failed, stale", "fetch failed, thrown",
     "clearSymbolCache"}

\* C15: a queueSetup, checkQueuedSetups or clearSymbolQueue for symbol A, and
\* a kline-cache lookup, fill or clearSymbolCache for symbol A, leave the
\* queue and the cached candles of every other symbol B as they were; after
\* clearSymbolQueue(A) the queue of A is empty.
C15_PerSymbolIsolation ==
    [][ /\ last'.op \in SymbolCalls =>
             \A B \in Symbols \ {last'.symbol} :
                 /\ queuedSetups'[B] = queuedSetups[B]
                 /\ klineCache'[B] = klineCache[B]
        /\ last'.op = "clearSymbolQueue" => queuedSetups'[last'.symbol] = <<>> ]_vars

\* a fill for one symbol while another symbol has a queued setup and cached
\* candles of its own
C15_Witness ==
    /\ last.op = "fetched"
    /\ klineCache[last.symbol][last.arg].data = last.result
    /\ \E B \in Symbols \ {last.symbol} :
         /\ Len(queuedSetups[B]) > 0
         /\ \E interval \in CacheIntervals : klineCache[B][interval] # NoEntry

(***************************************************************************)
(* Properties of the confidence score                                      *)
(***************************************************************************)
Near(price, to, perMille) == Abs(price - to) * 1000 < perMille * to

\* the seven criteria of an A+ setup, numbered as the bot counts them
CriteriaMet(patterns, analysis) ==
    LET main == patterns[1]
        structure == analysis.marketStructure
        Met(k) ==
            CASE k = 1 ->
                   \E i \in 1..Len(structure.swings) :
                      /\ structure.swings[i].timestamp + ONE_DAY > main.timestamp
                      /\ Cardinality({ j \in i..Len(structure.swings) :
                            structure.swings[j].timestamp + ONE_DAY > main.timestamp }) <= 3
                      /\ \/ /\ main.direction = "bullish" /\ structure.trend = "uptrend"
                            /\ structure.swings[i].type = "HL"
                         \/ /\ main.direction # "bullish" /\ structure.trend = "downtrend"
                            /\ structure.swings[i].type = "LH"
              [] k = 2 ->
                   \E i \in 2..Len(patterns) :
                      patterns[i].direction = main.direction
                        /\ Near(patterns[i].price, main.price, 3)
              [] k = 3 -> main.volume * 10 > main.averageVolume * 15
              [] k = 4 -> main.cleanBreak /\ ~main.immediateRetrace
              [] k = 5 ->
                   \E l \in Range(analysis.keyLevels) :
                      l.strength >= 70 /\ Near(l.price, main.price, 3)
              [] k = 6 -> main.marketStructureAlignment
              [] k = 7 ->
                   \E l \in Range(analysis.liquidityLevels) :
                      /\ l.stopCluster
                      /\ Near(l.price, main.price, 5)
                      /\ l.type = (IF main.direction = "bullish" THEN "buy" ELSE "sell")
    IN  { k \in 1..7 : Met(k) }

C16_FourOfSeven ==
    /\ last.op = "calculateConfidenceScore"
    /\ ~last.result.isAPlus
    /\ Cardinality(CriteriaMet(last.arg.patterns, last.arg.analysis)) = 4

C17_ScoreIsConstant ==
    (last.op = "analyzeSMC" /\ last.plan # NoPlan) =>
        last.plan.confidenceScore = (IF last.plan.isAPlusSetup THEN 100 ELSE 70)

C17_APlusPlan ==
    last.op = "analyzeSMC" /\ last.plan # NoPlan /\ last.plan.isAPlusSetup

C17_PlainPlan ==
    /\ last.op = "analyzeSMC" /\ last.plan # NoPlan /\ ~last.plan.isAPlusSetup
    /\ last.main.confidence > last.plan.confidenceScore

(***************************************************************************)
(* Properties of the swing detector                                        *)
(***************************************************************************)
HighTypes == {"HH", "LH"}
LowTypes == {"LL", "HL"}
\* candle i has three candles on each side and none of them is higher (lower)
QualifiesAsHigh(candles, i) ==
    /\ i - 3 >= 1 /\ i + 3 <= Len(candles)
    /\ \A d \in 1..3 : candles[i].high >= candles[i - d].high
                         /\ candles[i].high >= candles[i + d].high
QualifiesAsLow(candles, i) ==
    /\ i - 3 >= 1 /\ i + 3 <= Len(candles)
    /\ \A d \in 1..3 : candles[i].low <= candles[i - d].low
                         /\ candles[i].low <= candles[i + d].low
\* the swings of one side emitted before swing k
EarlierOf(swings, k, types) == { j \in 1..(k - 1) : swings[j].type \in types }
LatestOf(swings, k, types) ==
    swings[CHOOSE j \in EarlierOf(swings, k, types) :
              \A other \in EarlierOf(swings, k, types) : other <= j]

\* C18: identifySwings emits, in candle order, one swing high (low) for each
\* candle whose high (low) is >= (<=) that of the 3 candles before and after
\* it; a swing high is HH iff it is the first swing high or strictly above
\* the most recent earlier swing high, else LH; a swing low is LL iff it is
\* the first swing low or strictly below the most recent earlier swing low,
\* else HL.
C18_SwingClassification ==
    last.op = "identifySwings" =>
        LET candles == last.arg
            swings == last.result
        IN  /\ \A k \in 2..Len(swings) : swings[k - 1].timestamp <= swings[k].timestamp
            /\ \A i \in 1..Len(candles) :
                 /\ Cardinality({ k \in 1..Len(swings) :
                        /\ swings[k].timestamp = candles[i].timestamp
                        /\ swings[k].type \in HighTypes
                        /\ swings[k].price = candles[i].high })
                      = Count(QualifiesAsHigh(candles, i))
                 /\ Cardinality({ k \in 1..Len(swings) :
                        /\ swings[k].timestamp = candles[i].timestamp
                        /\ swings[k].type \in LowTypes
                        /\ swings[k].price = candles[i].low })
                      = Count(QualifiesAsLow(candles, i))
            /\ Len(swings) = Cardinality({ i \in 1..Len(candles) : QualifiesAsHigh(candles, i) })
                               + Cardinality({ i \in 1..Len(candles) : QualifiesAsLow(candles, i) })
            /\ \A k \in 1..Len(swings) :
                 /\ swings[k].type \in HighTypes =>
                      (swings[k].type = "HH" <=>
                          \/ EarlierOf(swings, k, HighTypes) = {}
                          \/ swings[k].price > LatestOf(swings, k, HighTypes).price)
                 /\ swings[k].type \in LowTypes =>
                      (swings[k].type = "LL" <=>
                          \/ EarlierOf(swings, k, LowTypes) = {}
                          \/ swings[k].price < LatestOf(swings, k, LowTypes).price)

\* a higher high typed HH after an earlier swing high, and a swing low equal
\* to the one before it typed HL
C18_Witness ==
    /\ last.op = "identifySwings"
    /\ \E k \in 2..Len(last.result) :
         /\ last.result[k].type = "HH"
         /\ EarlierOf(last.result, k, HighTypes) # {}
    /\ \E k \in 1..Len(last.result) :
         /\ last.result[k].type = "HL"
         /\ last.result[k].price = LatestOf(last.result, k, LowTypes).price

C18_LowerLowAfterFirst ==
    /\ last.op = "identifySwings"
    /\ \E k \in 2..Len(last.result) :
         /\ last.result[k].type = "LL"
         /\ EarlierOf(last.result, k, LowTypes) # {}
    /\ \E k \in 1..Len(last.result) :
         /\ last.result[k].type = "LH"
         /\ last.result[k].price < LatestOf(last.result, k, HighTypes).price

(***************************************************************************)
(* Properties of the level clusterer                                       *)
(***************************************************************************)
\* C19 (as claimed): groupNearbyLevels applied to the prices of the groups it
\* returned gives as many groups as the first application.
C19_RegroupingKeepsCount ==
    last.op = "groupNearbyLevels again" => Len(last.result) = Len(last.before)

\* two prices more than 0.2% apart whose groups have averages less than 0.2%
\* apart: the second application merges them
C19_GroupsMerged ==
    /\ last.op = "groupNearbyLevels again"
    /\ Len(last.before) = 2
    /\ Len(last.result) = 1
    /\ last.result[1].count = 2

\* with all prices more than 0.2% apart the count is kept
C19_ApartPricesKept ==
    /\ last.op = "groupNearbyLevels again"
    /\ Len(last.before) = 3
    /\ Len(last.result) = 3

(***************************************************************************)
(* Properties of the order-block recognisers                               *)
(***************************************************************************)
FallsThenRises(candles, i) ==
    /\ candles[i].close < candles[i].open
    /\ candles[i + 1].close > candles[i + 1].open
    /\ candles[i + 1].close > candles[i].high
RisesThenFalls(candles, i) ==
    /\ candles[i].close > candles[i].open
    /\ candles[i + 1].close < candles[i + 1].open
    /\ candles[i + 1].close < candles[i].low
\* the candles from index first on that start an order block, and the k-th
BlockStarts(candles, first) ==
    { i \in first..(Len(candles) - 1) :
        FallsThenRises(candles, i) \/ RisesThenFalls(candles, i) }
NthOf(starts, k) == CHOOSE i \in starts : Cardinality({ j \in starts : j < i }) = k - 1
\* one pattern for each start, in candle order, bullish after a falling
\* candle and bearish after a rising one, priced by PriceOf
BlocksAre(patterns, candles, first, PriceOf(_, _)) ==
    LET starts == BlockStarts(candles, first)
    IN  /\ Len(patterns) = Cardinality(starts)
        /\ \A k \in 1..Len(patterns) :
             LET i == NthOf(starts, k)
             IN  /\ patterns[k].type = "OrderBlock"
                 /\ patterns[k].direction =
                      (IF FallsThenRises(candles, i) THEN "bullish" ELSE "bearish")
                 /\ patterns[k].price = PriceOf(candles[i], patterns[k].direction)
Midpoint(candle, direction) == (candle.high + candle.low) \div 2
Extreme(candle, direction) == IF direction = "bullish" THEN candle.low ELSE candle.high

\* C20 (as claimed): for every candle window the recogniser emits a bullish
\* OrderBlock for index i exactly when candle i closes below its open and
\* candle i+1 closes above its open and above the high of candle i, a bearish
\* one in the mirrored case, each at the midpoint (high_i + low_i) / 2.
C20_OrderBlockAtMidpoint ==
    last.op \in {"findPatterns", "findOrderBlocks"} =>
        BlocksAre(last.result, last.arg, 1, Midpoint)

\* findOrderBlocks does so for every candle but the first of the window
C20_FindOrderBlocksFromSecondCandle ==
    last.op = "findOrderBlocks" => BlocksAre(last.result, last.arg, 2, Midpoint)

\* findPatterns recognises the same candles and prices a bullish block at
\* the low and a bearish block at the high of candle i
C20_FindPatternsAtExtreme ==
    last.op = "findPatterns" => BlocksAre(last.result, last.arg, 2, Extreme)

C20_BlockAtExtreme ==
    /\ last.op = "findPatterns"
    /\ Len(last.result) = 1
    /\ BlockStarts(last.arg, 1) = {2}
    /\ last.result[1].price # Midpoint(last.arg[2], last.result[1].direction)

C20_FirstCandleSkipped ==
    /\ last.op = "findOrderBlocks"
    /\ 1 \in BlockStarts(last.arg, 1)
    /\ Len(last.result) < Cardinality(BlockStarts(last.arg, 1))

(***************************************************************************)
(* Properties of the recognisers on short series                           *)
(***************************************************************************)
\* fewer candles than the computation of the type reads: seven for the types
\* found from swings, three for the others
TooShortFor(candles, patternType) ==
    Len(candles) < (IF patternType \in {"ChoCH", "BOS"} THEN 7 ELSE 3)

\* C21 (as claimed): on a candle series too short for the computation,
\* the empty series included, identifySwings and findPatterns of every
\* pattern type return an empty list and do not throw.
C21_ShortSeriesGiveEmptyResults ==
    /\ (last.op = "identifySwings" /\ Len(last.arg) < 7) => last.result = <<>>
    /\ (last.op = "findPatterns of type"
          /\ TooShortFor(last.arg.candles, last.arg.patternType)) =>
            ~last.result.threw /\ last.result.patterns = <<>>

\* it holds of every series that has a candle
C21_ShortNonEmptySeries ==
    /\ (last.op = "identifySwings" /\ Len(last.arg) < 7) => last.result = <<>>
    /\ (last.op = "findPatterns of type"
          /\ Len(last.arg.candles) > 0
          /\ TooShortFor(last.arg.candles, last.arg.patternType)) =>
            ~last.result.threw /\ last.result.patterns = <<>>

C21_EmptySeriesThrows ==
    /\ last.op = "findPatterns of type"
    /\ last.arg.candles = <<>>
    /\ last.result.threw

(***************************************************************************)
(* Properties of the cycle on malformed input                              *)
(***************************************************************************)
\* C22 (as claimed): a cycle whose candle series has timestamps that do not
\* ascend returns no plan and queues no setup.
C22_MalformedSeriesRejected ==
    (last.op = "analyzeSMC" /\ last.candles.timestamps # "ascending") =>
        last.plan = NoPlan /\ last.setup = NoSetup

\* the order of the timestamps changes nothing: a plan is returned
C22_PlanFromUnorderedSeries ==
    /\ last.op = "analyzeSMC"
    /\ last.candles.timestamps = "not ascending"
    /\ last.plan # NoPlan

(***************************************************************************)
(* Properties of the choice among pattern types                            *)
(***************************************************************************)
\* C30 (as claimed): in a cycle whose detected patterns are all FairValueGap
\* patterns the main pattern is a FairValueGap (the top-ranked one), which
\* goes to the alignment validation.
C30_FairValueGapBecomesMain ==
    (/\ last.op = "analyzeSMC"
     /\ last.patterns # <<>>
     /\ \A p \in Range(last.patterns) : p.type = "FairValueGap") =>
        last.main = prioritizePatterns(last.patterns)[1]

\* what the code does: a FairValueGap is never the main pattern
C30_FairValueGapNeverMain ==
    last.op = "analyzeSMC" => last.main.type # "FairValueGap"

\* a cycle with one FairValueGap, clean and aligned with the structure, ends
\* without a candidate
C30_FairValueGapDropped ==
    /\ last.op = "analyzeSMC"
    /\ Len(last.patterns) = 1
    /\ last.patterns[1].type = "FairValueGap"
    /\ validateImbalance(last.patterns[1], [trend |-> last.trend])
    /\ last.main = NoPattern

(***************************************************************************)
(* The queue check at the head of an analysis cycle                        *)
(***************************************************************************)
\* analyzeSMC, from the read of the current price to the return of the plan
\* of a queued setup: checkQueuedSetups removes every setup whose band holds
\* the price, and the first of them alone is handed to generateTradingPlan.
\* With no setup in its band the cycle goes on to the pattern search.
AnalyzeQueuedSetups(symbol) ==
    \E currentPrice \in CheckPrices :
        LET validQueuedSetups ==
                checkQueuedSetupsReturn(queuedSetups[symbol], currentPrice, now)
        IN  /\ queuedSetups' =
                 [queuedSetups EXCEPT
                    ![symbol] = checkQueuedSetupsStore(@, currentPrice, now)]
            /\ last' = [NoCall EXCEPT
                          !.op = IF Len(validQueuedSetups) > 0
                                 THEN "analyzeSMC of a queued setup"
                                 ELSE "analyzeSMC goes on",
                          !.symbol = symbol, !.t = now, !.price = currentPrice,
                          !.before = queuedSetups[symbol],
                          !.returned = validQueuedSetups,
                          !.setup = IF Len(validQueuedSetups) > 0
                                    THEN validQueuedSetups[1] ELSE NoSetup]
            /\ UNCHANGED <<now, klineCache, fetching, db, managerVars>>

NextCycle ==
    \/ QueueSetup(MainSymbol)
    \/ AnalyzeQueuedSetups(MainSymbol)
    \/ Tick

SpecCycle == Init /\ [][NextCycle]_vars

\* C25: every setup that checkQueuedSetups removed in an analysis cycle was
\* handed to generateTradingPlan in that cycle or is in the queue when the
\* cycle ends, also when several setups are triggered by the same price.
C25_TriggeredSetupsNotLost ==
    last.op = "analyzeSMC of a queued setup" =>
        \A k \in 1..Len(last.returned) :
            \/ k = 1 /\ last.setup = last.returned[1]
            \/ last.returned[k] \in Range(StoredQueue)

\* one setup triggered: it is the one evaluated
C25_SingleSetupEvaluated ==
    (last.op = "analyzeSMC of a queued setup" /\ Len(last.returned) = 1) =>
        /\ last.setup = last.returned[1]
        /\ last.setup \notin Range(StoredQueue)

C25_OneTriggered ==
    /\ last.op = "analyzeSMC of a queued setup"
    /\ Len(last.returned) = 1
    /\ Len(last.before) > 1

(***************************************************************************)
(* The kline cache over time                                               *)
(***************************************************************************)
\* the instants at which getKlinesWithCache is called for an interval: when
\* the clock starts, and one millisecond before and at the expiry time
CallInstants(interval) ==
    {0, cacheExpiryTimes(interval) - 1, cacheExpiryTimes(interval)}

\* Date.now() moves on to a later instant; the remote answers a call before
\* the clock reaches the next instant
CacheTick ==
    /\ fetching = {}
    /\ \E t \in UNION {CallInstants(interval) : interval \in CacheIntervals} :
         t > now /\ now' = t
    /\ last' = NoCall
    /\ UNCHANGED <<queuedSetups, klineCache, fetching, db, managerVars>>

NextCache ==
    \/ \E interval \in CacheIntervals, forceRefresh \in BOOLEAN :
         now \in CallInstants(interval)
           /\ GetKlinesWithCache(MainSymbol, interval, forceRefresh)
    \/ \E f \in fetching : FetchSucceeds(f)
    \/ \E f \in fetching : FetchFails(f)
    \/ CacheTick

SpecCache == Init /\ [][NextCache]_vars

\* the expiry times as the documentation states them, in milliseconds
StatedExpiry(interval) ==
    60 * 1000 * ( CASE interval = "5m" -> 4
                    [] interval = "15m" -> 12
                    [] interval = "1h" -> 45
                    [] interval = "4h" -> 180
                    [] OTHER -> 5 )

\* the call that has just ended or has just begun to wait may take the
\* candles from the cache
MayUseCache(entry) ==
    /\ entry # NoEntry
    /\ last'.t - entry.timestamp < StatedExpiry(last'.arg)
    /\ ~last'.forceRefresh

\* C26: getKlinesWithCache fetches from the remote only when the symbol and
\* interval have no entry, or the entry is as old as the expiry time of the
\* interval or older, or forceRefresh is set; otherwise it returns the cached
\* candles.  When the fetch fails and an entry exists the call returns the
\* entry and the cached data and timestamp stay as they are; without an entry
\* the error propagates.
C26_CacheFreshness ==
    [][ LET entry == klineCache[last'.symbol][last'.arg]
            ended == fetching \ fetching'
        IN  /\ last'.op = "fetch" => ~MayUseCache(entry)
            /\ last'.op = "getKlinesWithCache" =>
                  /\ MayUseCache(entry)
                  /\ last'.result = entry.data
                  /\ fetching' = fetching
            /\ last'.op \in {"fetch", "getKlinesWithCache"} =>
                  klineCache' = klineCache
            /\ last'.op = "fetch failed, stale" =>
                  /\ klineCache' = klineCache
                  /\ \A f \in ended : /\ f.cacheEntry # NoEntry
                                      /\ last'.result = f.cacheEntry.data
            /\ last'.op = "fetch failed, thrown" =>
                  /\ klineCache' = klineCache
                  /\ \A f \in ended : f.cacheEntry = NoEntry
      ]_vars

\* an entry exactly as old as the expiry time of its interval was fetched
\* again, the fetch failed and the entry was returned
C26_Witness ==
    /\ last.op = "fetch failed, stale"
    /\ klineCache[last.symbol][last.arg].data = last.result
    /\ last.t - klineCache[last.symbol][last.arg].timestamp = StatedExpiry(last.arg)
    /\ last.arg = "1d"

(***************************************************************************)
(* TradingBot.startMonitoring: the plan of the AI service is validated     *)
(* against the risk management rules and stored in trading_plans           *)
(***************************************************************************)
MaxStoredPlans == 2     \* rows of trading_plans in one run

validateTradingPlan(plan, marketAnalysis, interval) ==
    IF /\ plan.riskRewardRatio >= 2
       /\ plan.riskRewardRatio < marketAnalysis.riskManagement.riskRewardRatio
    THEN FALSE
    ELSE IF plan.positionSize > marketAnalysis.riskManagement.recommendedPositionSize
    THEN FALSE
    ELSE IF plan.maxLossPercentage > marketAnalysis.riskManagement.maxLossPercentage
    THEN FALSE
    ELSE IF plan.confidenceScore < 70
    THEN FALSE
    ELSE IF marketAnalysis.marketCondition.volatility = "high" /\ plan.positionSize > 3
    THEN FALSE
    ELSE IF plan.timeframe # interval
    THEN FALSE
    ELSE TRUE

\* DatabaseService.storeTradingPlan: the INSERT into trading_plans
storeTradingPlan(rows, symbol, interval, plan, marketCondition) ==
    Append(rows, [symbol |-> symbol, interval |-> interval, plan |-> plan,
                  progress |-> "IN_PROGRESS",
                  market_condition |-> marketCondition])

storePlan(rows, symbol, interval, plan, marketAnalysis, progress) ==
    storeTradingPlan(rows, symbol, interval, plan, marketAnalysis.marketCondition)

\* what the AI service and the market analysis hand to one call: a plan that
\* passes every rule, and the plans that fail one rule each
MonitoringInputs ==
    LET plan == [riskRewardRatio |-> 3, positionSize |-> 2, maxLossPercentage |-> 1,
                 confidenceScore |-> 80, timeframe |-> "5m"]
        marketAnalysis ==
            [riskManagement |-> [riskRewardRatio |-> 2, recommendedPositionSize |-> 5,
                                 maxLossPercentage |-> 2],
             marketCondition |-> [volatility |-> "low"]]
        strict == [marketAnalysis EXCEPT !.riskManagement.riskRewardRatio = 3]
        volatile == [marketAnalysis EXCEPT !.marketCondition.volatility = "high"]
    IN  { [plan |-> plan, marketAnalysis |-> marketAnalysis],
          [plan |-> [plan EXCEPT !.riskRewardRatio = 2], marketAnalysis |-> strict],
          [plan |-> [plan EXCEPT !.riskRewardRatio = 1], marketAnalysis |-> strict],
          [plan |-> [plan EXCEPT !.positionSize = 6], marketAnalysis |-> marketAnalysis],
          [plan |-> [plan EXCEPT !.maxLossPercentage = 3], marketAnalysis |-> marketAnalysis],
          [plan |-> [plan EXCEPT !.confidenceScore = 69], marketAnalysis |-> marketAnalysis],
          [plan |-> [plan EXCEPT !.positionSize = 4], marketAnalysis |-> volatile],
          [plan |-> [plan EXCEPT !.timeframe = "1h"], marketAnalysis |-> marketAnalysis] }

StartMonitoring(symbol, interval) ==
    /\ Len(db.trading_plans) < MaxStoredPlans
    /\ \E in \in MonitoringInputs :
         LET isValidPlan == validateTradingPlan(in.plan, in.marketAnalysis, interval)
             progress == IF isValidPlan THEN "IN_PROGRESS" ELSE "SKIPPED"
         IN  /\ db' = [db EXCEPT !.trading_plans =
                          storePlan(@, symbol, interval, in.plan,
                                    in.marketAnalysis, progress)]
             /\ last' = [NoCall EXCEPT !.op = "startMonitoring", !.symbol = symbol,
                                       !.t = now, !.arg = in, !.result = isValidPlan]
    /\ UNCHANGED <<now, queuedSetups, klineCache, fetching, managerVars>>

NextPlans == \E symbol \in Symbols : StartMonitoring(symbol, "5m")

SpecPlans == Init /\ [][NextPlans]_vars

StoredPlan == db.trading_plans[Len(db.trading_plans)]

\* C27: a plan that validateTradingPlan rejects is persisted with progress
\* SKIPPED, and a plan that passes with progress IN_PROGRESS.
C27_ProgressFollowsValidation ==
    last.op = "startMonitoring" =>
        /\ StoredPlan.plan = last.arg.plan
        /\ StoredPlan.progress = IF last.result THEN "IN_PROGRESS" ELSE "SKIPPED"

\* a plan that passes is stored as IN_PROGRESS
C27_PassingPlanInProgress ==
    (last.op = "startMonitoring" /\ last.result) =>
        /\ StoredPlan.plan = last.arg.plan
        /\ StoredPlan.progress = "IN_PROGRESS"

C27_PassingPlanStored ==
    /\ last.op = "startMonitoring"
    /\ last.result
    /\ last.arg.plan.riskRewardRatio = 1

\* a rejected plan is in the table as IN_PROGRESS
C27_RejectedPlanInProgress ==
    /\ last.op = "startMonitoring"
    /\ ~last.result
    /\ last.arg.plan.confidenceScore < 70
    /\ StoredPlan.progress = "IN_PROGRESS"

(***************************************************************************)
(* SMCTradingManager with the wallet: start and stop, the periodic scan,   *)
(* the trades it records and the monitor that closes them.  A call that    *)
(* waits at an await is an element of calls; what runs between two awaits  *)
(* is one step.  A handle of setInterval is the kind of the timer and its  *)
(* number among the timers of that kind.                                   *)
(***************************************************************************)
MaxStarts == 2          \* calls of start() that get past the isRunning check
MaxScans == 2           \* scanMarkets calls waiting at once
MaxTrades == 2          \* rows of trades in one run
MaxMonitorCalls == 2    \* monitor callbacks waiting at once

activeSymbols == <<"BTCUSDT", "ETHUSDT">>

\* the plans analyzeSMC returns to the manager, one per symbol
PlanOf(symbol) ==
    IF symbol = MainSymbol
    THEN [direction |-> "long", entryPrice |-> BasePrice, stopLoss |-> BasePrice - 50,
          targets |-> <<BasePrice + 100, BasePrice + 200>>, positionSize |-> 2]
    ELSE [direction |-> "short", entryPrice |-> BasePrice, stopLoss |-> BasePrice + 50,
          targets |-> <<BasePrice - 100, BasePrice - 200>>, positionSize |-> 3]

null == [direction |-> "", entryPrice |-> 0, stopLoss |-> 0, targets |-> <<>>,
         positionSize |-> 0]

\* the close of the latest 1m candle: at the entry of the plan, and at the
\* stop loss of the long plan or the first target of the short one
MarketPrices(symbol) ==
    {PlanOf(symbol).entryPrice,
     IF symbol = MainSymbol THEN PlanOf(symbol).stopLoss ELSE PlanOf(symbol).targets[1]}

setInterval(kind, symbol, plan) ==
    [made |-> [timers.made EXCEPT ![kind] = @ + 1],
     live |-> timers.live \cup {[id |-> <<kind, timers.made[kind] + 1>>,
                                 symbol |-> symbol, plan |-> plan]}]

clearInterval(t, id) == [t EXCEPT !.live = {x \in @ : x.id # id}]

Live(kind) == {x \in timers.live : x.id[1] = kind}

\* a call of the manager waiting at the await named by pc
NewCall ==
    [kind |-> "", pc |-> "", from |-> "", timer |-> NoHandle, symbol |-> "",
     plan |-> null, activeTradesMap |-> [s \in Symbols |-> FALSE], i |-> 0,
     tradeId |-> 0, currentPrice |-> 0, profitLoss |-> 0, balance |-> 0]

Waiting(kind) == {k \in 1..Len(calls) : calls[k].kind = kind}

\* SMCWalletService: the queries
getActiveTradesBySymbols(trades) ==
    [s \in Symbols |-> \E n \in 1..Len(trades) :
                          trades[n].symbol = s /\ ~trades[n].exited]

getActiveTradeId(trades, symbol) ==
    LET open == {n \in 1..Len(trades) : trades[n].symbol = symbol /\ ~trades[n].exited}
    IN  IF open = {} THEN 0 ELSE CHOOSE n \in open : \A m \in open : m <= n

isStopLossHit(currentPrice, plan) ==
    IF plan.direction = "long" THEN currentPrice <= plan.stopLoss
    ELSE currentPrice >= plan.stopLoss

\* the index of the first target reached, -1 when none is
isTargetHit(currentPrice, plan) ==
    LET hit == {n \in 1..Len(plan.targets) :
                  IF plan.direction = "long" THEN currentPrice >= plan.targets[n]
                  ELSE currentPrice <= plan.targets[n]}
    IN  IF hit = {} THEN -1 ELSE (CHOOSE n \in hit : \A m \in hit : n <= m) - 1

\* scanMarkets: the next symbol after position i that is analysed, 0 when the
\* loop is over
nextAnalysed(activeTradesMap, i) ==
    LET left == {j \in (i + 1)..Len(activeSymbols) : ~activeTradesMap[activeSymbols[j]]}
    IN  IF left = {} THEN 0 ELSE CHOOSE j \in left : \A m \in left : j <= m

\* scanMarkets up to its first await of analyzeSMC: the active trades are read
\* once, and the scan waits for the analysis of the first symbol without one
scanMarkets(from, trades) ==
    LET activeTradesMap == getActiveTradesBySymbols(trades)
        i == nextAnalysed(activeTradesMap, 0)
    IN  IF i = 0 THEN <<>>
        ELSE << [NewCall EXCEPT !.kind = "scan", !.pc = "analyzeSMC", !.from = from,
                                !.activeTradesMap = activeTradesMap, !.i = i,
                                !.symbol = activeSymbols[i]] >>

\* the timers when a scan is over: start() goes on after its initial scan and
\* sets up the periodic scan
scanIsOver(from, t) ==
    IF from = "start"
    THEN [made |-> [t.made EXCEPT !["scan"] = @ + 1],
          live |-> t.live \cup {[id |-> <<"scan", t.made["scan"] + 1>>,
                                 symbol |-> "", plan |-> null]}]
    ELSE t

\* start(): the check of isRunning, then the await of initializeDatabase and
\* initializeWallet
Start ==
    /\ IF isRunning
       THEN /\ last' = [NoCall EXCEPT !.op = "start while running", !.t = now]
            /\ UNCHANGED calls
       ELSE /\ timers.made["price"] + Cardinality(Waiting("start")) < MaxStarts
            /\ calls' = Append(calls, [NewCall EXCEPT !.kind = "start",
                                                      !.pc = "initializeWallet"])
            /\ last' = [NoCall EXCEPT !.op = "start", !.t = now]
    /\ UNCHANGED <<now, queuedSetups, klineCache, fetching, db, isRunning, timers,
                   monitorIntervals, priceUpdateInterval, currentPrices>>

\* start() goes on: isRunning is set and updateCurrentPrices awaited
StartInitialized(k) ==
    /\ k \in Waiting("start") /\ calls[k].pc = "initializeWallet"
    /\ isRunning' = TRUE
    /\ calls' = [calls EXCEPT ![k].pc = "updateCurrentPrices"]
    /\ last' = [NoCall EXCEPT !.op = "start: isRunning", !.t = now]
    /\ UNCHANGED <<now, queuedSetups, klineCache, fetching, db, timers,
                   monitorIntervals, priceUpdateInterval, currentPrices>>

\* start() goes on: the prices are in, the price timer is made and the
\* initial scan begins
StartPricesUpdated(k) ==
    /\ k \in Waiting("start") /\ calls[k].pc = "updateCurrentPrices"
    /\ currentPrices' = [s \in Symbols |-> BasePrice]
    /\ priceUpdateInterval' = <<"price", timers.made["price"] + 1>>
    /\ LET scan == scanMarkets("start", db.trades)
       IN  /\ calls' = RemoveAt(calls, k) \o scan
           /\ timers' = IF scan = <<>>
                        THEN scanIsOver("start", setInterval("price", "", null))
                        ELSE setInterval("price", "", null)
    /\ last' = [NoCall EXCEPT !.op = "scanMarkets", !.t = now, !.arg = "start",
                              !.result = isRunning]
    /\ UNCHANGED <<now, queuedSetups, klineCache, fetching, db, isRunning,
                   monitorIntervals>>

stop ==
    /\ isRunning' = FALSE
    /\ timers' = [timers EXCEPT !.live =
                    {x \in @ : /\ \A s \in Symbols : monitorIntervals[s] # x.id
                               /\ x.id # priceUpdateInterval}]
    /\ priceUpdateInterval' = NoHandle
    /\ monitorIntervals' = [s \in Symbols |-> NoHandle]
    /\ last' = [NoCall EXCEPT !.op = "stop", !.t = now]
    /\ UNCHANGED <<now, queuedSetups, klineCache, fetching, db, currentPrices, calls>>

\* the callback of the periodic scan timer
ScanTimerFires(x) ==
    /\ x \in Live("scan")
    /\ IF ~isRunning
       THEN /\ timers' = clearInterval(timers, x.id)
            /\ last' = [NoCall EXCEPT !.op = "scan timer cleared", !.t = now,
                                      !.arg = x.id]
            /\ UNCHANGED calls
       ELSE /\ Cardinality(Waiting("scan")) < MaxScans
            /\ calls' = calls \o scanMarkets("timer", db.trades)
            /\ last' = [NoCall EXCEPT !.op = "scanMarkets", !.t = now, !.arg = x.id,
                                      !.result = isRunning]
            /\ UNCHANGED timers
    /\ UNCHANGED <<now, queuedSetups, klineCache, fetching, db, isRunning,
                   monitorIntervals, priceUpdateInterval, currentPrices>>

\* a scan after the symbol at its position is dealt with
scanGoesOn(k) ==
    LET i == nextAnalysed(calls[k].activeTradesMap, calls[k].i)
    IN  IF i = 0 THEN RemoveAt(calls, k)
        ELSE [calls EXCEPT ![k].pc = "analyzeSMC", ![k].i = i,
                           ![k].symbol = activeSymbols[i], ![k].plan = null]

\* analyzeSMC returned to the scan: a plan, which is handed to recordTrade,
\* or null, or an error, on which the scan ends
AnalyzeSMCReturns(k, outcomes) ==
    /\ k \in Waiting("scan") /\ calls[k].pc = "analyzeSMC"
    /\ \E outcome \in outcomes :
         /\ outcome = "plan" =>
              Len(db.trades) + Cardinality({j \in Waiting("scan") :
                                              calls[j].pc = "recordTrade"}) < MaxTrades
         /\ calls' = CASE outcome = "plan" ->
                            [calls EXCEPT ![k].pc = "recordTrade",
                                          ![k].plan = PlanOf(calls[k].symbol)]
                       [] outcome = "null" -> scanGoesOn(k)
                       [] OTHER -> RemoveAt(calls, k)
         /\ timers' = IF Len(calls') < Len(calls)
                      THEN scanIsOver(calls[k].from, timers) ELSE timers
         /\ last' = [NoCall EXCEPT !.op = "analyzeSMC returned", !.t = now,
                                   !.symbol = calls[k].symbol, !.result = outcome]
    /\ UNCHANGED <<now, queuedSetups, klineCache, fetching, db, isRunning,
                   monitorIntervals, priceUpdateInterval, currentPrices>>

\* the row of a trade; closed counts the closeTrade updates of the row
tradeOf(symbol, plan) ==
    [symbol |-> symbol, direction |-> plan.direction, entry |-> plan.entryPrice,
     stopLoss |-> plan.stopLoss, target |-> plan.targets[1],
     positionSize |-> plan.positionSize, exited |-> FALSE, profitLoss |-> 0,
     closed |-> 0]

\* recordTrade returned to executeTradingPlan: the row is in the table,
\* monitorTrade replaces the monitor of the symbol, and the scan goes on
RecordTradeReturns(k) ==
    /\ k \in Waiting("scan") /\ calls[k].pc = "recordTrade"
    /\ LET symbol == calls[k].symbol
           plan == calls[k].plan
           cleared == clearInterval(timers, monitorIntervals[symbol])
           checkInterval == <<"monitor", timers.made["monitor"] + 1>>
           monitored == [made |-> [cleared.made EXCEPT !["monitor"] = @ + 1],
                         live |-> cleared.live \cup
                                    {[id |-> checkInterval, symbol |-> symbol,
                                      plan |-> plan]}]
       IN  /\ db' = [db EXCEPT !.trades = Append(@, tradeOf(symbol, plan))]
           /\ monitorIntervals' = [monitorIntervals EXCEPT ![symbol] = checkInterval]
           /\ calls' = scanGoesOn(k)
           /\ timers' = IF Len(calls') < Len(calls)
                        THEN scanIsOver(calls[k].from, monitored) ELSE monitored
           /\ last' = [NoCall EXCEPT !.op = "recordTrade", !.t = now,
                                     !.symbol = symbol, !.arg = Len(db.trades) + 1,
                                     !.result = calls[k].activeTradesMap]
    /\ UNCHANGED <<now, queuedSetups, klineCache, fetching, isRunning,
                   priceUpdateInterval, currentPrices>>

\* the callback of the price timer, for one symbol
UpdateCurrentPrices(symbol) ==
    /\ isRunning
    /\ Live("price") # {}
    /\ \E price \in MarketPrices(symbol) \ {currentPrices[symbol]} :
         currentPrices' = [currentPrices EXCEPT ![symbol] = price]
    /\ last' = [NoCall EXCEPT !.op = "updateCurrentPrices", !.t = now,
                              !.symbol = symbol]
    /\ UNCHANGED <<now, queuedSetups, klineCache, fetching, db, isRunning, timers,
                   monitorIntervals, priceUpdateInterval, calls>>

\* the callback of a monitor timer, up to its await of getActiveTradeId
MonitorTimerFires(x) ==
    /\ x \in Live("monitor")
    /\ IF ~isRunning
       THEN /\ timers' = clearInterval(timers, x.id)
            /\ UNCHANGED calls
       ELSE /\ currentPrices[x.symbol] # 0
            /\ Cardinality(Waiting("monitor")) < MaxMonitorCalls
            /\ calls' = Append(calls,
                  [NewCall EXCEPT !.kind = "monitor", !.pc = "getActiveTradeId",
                                  !.timer = x.id, !.symbol = x.symbol, !.plan = x.plan,
                                  !.currentPrice = currentPrices[x.symbol]])
            /\ UNCHANGED timers
    /\ last' = [NoCall EXCEPT !.op = "monitor timer", !.t = now, !.symbol = x.symbol,
                              !.arg = x.id]
    /\ UNCHANGED <<now, queuedSetups, klineCache, fetching, db, isRunning,
                   monitorIntervals, priceUpdateInterval, currentPrices>>

\* completeTrade: the profit or loss handed to closeTrade
profitLossOf(currentPrice, plan) ==
    IF plan.direction = "long"
    THEN (currentPrice - plan.entryPrice) * plan.positionSize
    ELSE (plan.entryPrice - currentPrice) * plan.positionSize

\* getActiveTradeId returned to the monitor callback: without a trade the
\* timer is cleared; at the stop loss or at a target completeTrade calls
\* closeTrade; otherwise the callback is over
GetActiveTradeIdReturns(k) ==
    /\ k \in Waiting("monitor") /\ calls[k].pc = "getActiveTradeId"
    /\ LET c == calls[k]
           tradeId == getActiveTradeId(db.trades, c.symbol)
           exit == \/ isStopLossHit(c.currentPrice, c.plan)
                   \/ isTargetHit(c.currentPrice, c.plan) # -1
       IN  /\ timers' = IF tradeId = 0 THEN clearInterval(timers, c.timer) ELSE timers
           /\ calls' = IF tradeId # 0 /\ exit
                       THEN [calls EXCEPT
                               ![k].pc = "closeTrade", ![k].tradeId = tradeId,
                               ![k].profitLoss = profitLossOf(c.currentPrice, c.plan)]
                       ELSE RemoveAt(calls, k)
           /\ last' = [NoCall EXCEPT
                         !.op = "getActiveTradeId", !.t = now, !.symbol = c.symbol,
                         !.arg = tradeId, !.price = c.currentPrice,
                         !.result = IF isStopLossHit(c.currentPrice, c.plan)
                                    THEN "Stop loss"
                                    ELSE IF isTargetHit(c.currentPrice, c.plan) # -1
                                    THEN "Target" ELSE ""]
    /\ UNCHANGED <<now, queuedSetups, klineCache, fetching, db, isRunning,
                   monitorIntervals, priceUpdateInterval, currentPrices>>

\* closeTrade: the UPDATE of the row has run, getBalance is awaited
CloseTradeUpdates(k) ==
    /\ k \in Waiting("monitor") /\ calls[k].pc = "closeTrade"
    /\ db' = [db EXCEPT !.trades[calls[k].tradeId] =
                 [@ EXCEPT !.exited = TRUE, !.profitLoss = calls[k].profitLoss,
                           !.closed = @ + 1]]
    /\ calls' = [calls EXCEPT ![k].pc = "getBalance"]
    /\ last' = [NoCall EXCEPT !.op = "closeTrade", !.t = now,
                              !.symbol = calls[k].symbol, !.arg = calls[k].tradeId]
    /\ UNCHANGED <<now, queuedSetups, klineCache, fetching, isRunning, timers,
                   monitorIntervals, priceUpdateInterval, currentPrices>>

\* closeTrade: getBalance returned, updateBalance is awaited
GetBalanceReturns(k) ==
    /\ k \in Waiting("monitor") /\ calls[k].pc = "getBalance"
    /\ calls' = [calls EXCEPT ![k].pc = "updateBalance",
                              ![k].balance = db.wallet.balance]
    /\ last' = [NoCall EXCEPT !.op = "getBalance", !.t = now,
                              !.symbol = calls[k].symbol, !.arg = calls[k].tradeId]
    /\ UNCHANGED <<now, queuedSetups, klineCache, fetching, db, isRunning, timers,
                   monitorIntervals, priceUpdateInterval, currentPrices>>

\* closeTrade: updateBalance has run; completeTrade returns and the monitor
\* callback clears its timer
UpdateBalanceReturns(k) ==
    /\ k \in Waiting("monitor") /\ calls[k].pc = "updateBalance"
    /\ db' = [db EXCEPT !.wallet.balance = calls[k].balance + calls[k].profitLoss]
    /\ timers' = clearInterval(timers, calls[k].timer)
    /\ calls' = RemoveAt(calls, k)
    /\ last' = [NoCall EXCEPT !.op = "updateBalance", !.t = now,
                              !.symbol = calls[k].symbol, !.arg = calls[k].tradeId]
    /\ UNCHANGED <<now, queuedSetups, klineCache, fetching, isRunning,
                   monitorIntervals, priceUpdateInterval, currentPrices>>

\* start and stop called at any time; the scans find no setup
NextManager ==
    \/ Start
    \/ \E k \in 1..Len(calls) : StartInitialized(k)
    \/ \E k \in 1..Len(calls) : StartPricesUpdated(k)
    \/ stop
    \/ \E x \in timers.live : ScanTimerFires(x)
    \/ \E k \in 1..Len(calls) : AnalyzeSMCReturns(k, {"null", "throws"})

SpecManager == Init /\ [][NextManager]_vars

StartOnce == timers.made["price"] = 0 /\ Waiting("start") = {} /\ Start

\* the manager started once and left running: the scans and the trades they
\* record, a timer firing while earlier scans wait
NextScans ==
    \/ StartOnce
    \/ \E k \in 1..Len(calls) : StartInitialized(k)
    \/ \E k \in 1..Len(calls) : StartPricesUpdated(k)
    \/ \E x \in timers.live : ScanTimerFires(x)
    \/ \E k \in 1..Len(calls) : AnalyzeSMCReturns(k, {"plan", "null"})
    \/ \E k \in 1..Len(calls) : RecordTradeReturns(k)

SpecScans == Init /\ [][NextScans]_vars

\* the manager started once and left running: one scan at a time, the
\* monitors of the trades and the wallet
NextWallet ==
    \/ StartOnce
    \/ \E k \in 1..Len(calls) : StartInitialized(k)
    \/ \E k \in 1..Len(calls) : StartPricesUpdated(k)
    \/ \E x \in timers.live : Waiting("scan") = {} /\ ScanTimerFires(x)
    \/ \E k \in 1..Len(calls) : AnalyzeSMCReturns(k, {"plan", "null"})
    \/ \E k \in 1..Len(calls) : RecordTradeReturns(k)
    \/ \E symbol \in Symbols : UpdateCurrentPrices(symbol)
    \/ \E x \in timers.live : MonitorTimerFires(x)
    \/ \E k \in 1..Len(calls) : GetActiveTradeIdReturns(k)
    \/ \E k \in 1..Len(calls) : CloseTradeUpdates(k)
    \/ \E k \in 1..Len(calls) : GetBalanceReturns(k)
    \/ \E k \in 1..Len(calls) : UpdateBalanceReturns(k)

SpecWallet == Init /\ [][NextWallet]_vars

\* C28: at most one periodic scan timer is live per manager: start() while
\* the manager runs makes no timer, after any sequence of start() and stop()
\* only the timer of the most recent start() keeps triggering scanMarkets, and
\* after stop() no scan is started.
C28_SingleScanTimer ==
    /\ Cardinality(Live("scan")) <= 1
    /\ last.op = "scanMarkets" => last.result

\* start() while the manager runs leaves the timers and the calls as they are
C28_StartWhileRunningIgnored ==
    [][(isRunning /\ last'.op = "start while running") =>
          /\ timers' = timers
          /\ calls' = calls]_vars

\* the manager runs with the scan timers of two calls of start() live, and
\* the older of them has just begun a scan
C28_TwoTimersScanning ==
    /\ isRunning
    /\ Cardinality(Live("scan")) = 2
    /\ last.op = "scanMarkets"
    /\ last.arg = <<"scan", 1>>

\* a scan begun by start() after stop() was called
C28_ScanAfterStop ==
    /\ last.op = "scanMarkets"
    /\ ~last.result

OpenTrades(symbol) ==
    {n \in 1..Len(db.trades) : db.trades[n].symbol = symbol /\ ~db.trades[n].exited}

\* C23: a symbol has at most one open trade at any time: scanMarkets records
\* no trade for a symbol that has an open one, also when a periodic scan
\* begins while an earlier scan still waits for analyzeSMC or recordTrade.
C23_OneOpenTradePerSymbol ==
    \A symbol \in Symbols : Cardinality(OpenTrades(symbol)) <= 1

\* a scan that began after the trade of a symbol was recorded skips the symbol
C23_SymbolSkipped ==
    /\ \E k \in Waiting("scan") :
         /\ calls[k].activeTradesMap[MainSymbol]
         /\ calls[k].symbol # MainSymbol
    /\ Cardinality(OpenTrades(MainSymbol)) = 1

\* two scans overlapped and each recorded a trade of the same symbol
C23_TwoOpenTrades ==
    /\ last.op = "recordTrade"
    /\ Cardinality(OpenTrades(last.symbol)) = 2
    /\ last.result[last.symbol] = FALSE

\* the profit and loss of the closed trades
ClosedProfitLoss ==
    SumSeq([n \in 1..Len(db.trades) |->
              IF db.trades[n].exited THEN db.trades[n].profitLoss ELSE 0])

\* no closeTrade is between its UPDATE of the trade and its update of the balance
WalletAtRest ==
    \A k \in Waiting("monitor") : calls[k].pc \notin {"getBalance", "updateBalance"}

\* C24: the wallet balance is conserved: after any interleaving of monitor
\* callbacks and closeTrade calls the balance is the initial 10000 plus the
\* profit and loss of the closed trades, and every trade is closed once.
C24_BalanceConserved ==
    /\ \A n \in 1..Len(db.trades) : db.trades[n].closed <= 1
    /\ WalletAtRest => db.wallet.balance = InitialBalance + ClosedProfitLoss

\* a trade was closed and the balance took its profit or loss
C24_TradeClosed ==
    /\ last.op = "updateBalance"
    /\ WalletAtRest
    /\ db.wallet.balance = InitialBalance + ClosedProfitLoss
    /\ db.wallet.balance # InitialBalance

\* the closeTrade calls of two trades read the same balance: one update is lost
C24_LostUpdate ==
    /\ WalletAtRest
    /\ \A n \in 1..Len(db.trades) : db.trades[n].closed = 1
    /\ Len(db.trades) = 2
    /\ db.wallet.balance # InitialBalance + ClosedProfitLoss

\* two callbacks of one monitor timer closed the same trade
C24_ClosedTwice ==
    \E n \in 1..Len(db.trades) : db.trades[n].closed = 2

(***************************************************************************)
(* The life of a trade: the manager started and stopped at any time, one   *)
(* scan and one monitor callback at a time, plans found for one symbol.    *)
(* Timers that are live keep firing and every awaited call returns.        *)
(***************************************************************************)
TimerHandles ==
    {[id |-> <<kind, n>>, symbol |-> symbol, plan |-> plan] :
        kind \in {"scan", "monitor"}, n \in 1..(MaxStarts + MaxTrades),
        symbol \in Symbols \cup {""}, plan \in {PlanOf(MainSymbol), null}}

CallReturns(k) ==
    \/ StartInitialized(k)
    \/ StartPricesUpdated(k)
    \/ AnalyzeSMCReturns(k, IF calls[k].symbol = MainSymbol
                            THEN {"plan", "null"} ELSE {"null"})
    \/ RecordTradeReturns(k)
    \/ GetActiveTradeIdReturns(k)
    \/ CloseTradeUpdates(k)
    \/ GetBalanceReturns(k)
    \/ UpdateBalanceReturns(k)

TimerFires(x) ==
    \/ Waiting("scan") = {} /\ ScanTimerFires(x)
    \/ Waiting("monitor") = {} /\ MonitorTimerFires(x)

NextLife ==
    \/ Start
    \/ stop
    \/ \E k \in 1..Len(calls) : CallReturns(k)
    \/ \E x \in timers.live : TimerFires(x)
    \/ UpdateCurrentPrices(MainSymbol)

SpecLife ==
    /\ Init /\ [][NextLife]_vars
    /\ \A k \in 1..(MaxStarts + MaxScans + MaxMonitorCalls) : WF_vars(CallReturns(k))
    /\ \A x \in TimerHandles : WF_vars(TimerFires(x))

\* the price kept for the symbol is at the stop loss or at a target of its plan
AtExit(symbol) ==
    \/ isStopLossHit(currentPrices[symbol], PlanOf(symbol))
    \/ isTargetHit(currentPrices[symbol], PlanOf(symbol)) # -1

Monitored(symbol) == \E x \in Live("monitor") : x.symbol = symbol

\* C29: when the manager runs and the price of a symbol has reached an exit
\* level of its plan and stays there, every open trade of the symbol is
\* eventually closed and its monitor timer cleared, and the symbol is analysed
\* again by later scans.
C29_OpenTradeEventuallyClosed ==
    <>[](isRunning /\ AtExit(MainSymbol)) =>
        /\ []<>(OpenTrades(MainSymbol) = {} /\ ~Monitored(MainSymbol))
        /\ []<>(last.op = "analyzeSMC returned" /\ last.symbol = MainSymbol)

\* a trade was closed at its stop loss and its monitor timer cleared
C29_TradeClosedAtStopLoss ==
    /\ last.op = "updateBalance"
    /\ last.symbol = MainSymbol
    /\ OpenTrades(MainSymbol) = {}
    /\ ~Monitored(MainSymbol)
    /\ isRunning

\* the manager runs, a trade is open at its exit level and no timer monitors it
C29_OpenTradeUnmonitored ==
    /\ isRunning
    /\ OpenTrades(MainSymbol) # {}
    /\ AtExit(MainSymbol)
    /\ ~Monitored(MainSymbol)
    /\ Waiting("monitor") = {}
    /\ Waiting("start") = {}


====
